---- MODULE Spec2Model ----
(***************************************************************************)
(* The schema migration engine of ockam_node                               *)
(* (storage/database/migrations/migration_support/migrator.rs).            *)
(*                                                                         *)
(* A Migrator holds a registry of SQL migrations and Rust migrations and   *)
(* brings a database up to a version: migrate_up_to first runs             *)
(* run_migrations_impl in Mode::DryRun (the planner), then takes the       *)
(* backend lock, runs run_migrations_impl in Mode::ApplyMigrations and     *)
(* releases the lock.  Every await of the code is one action of the model. *)
(* The last part is the relay of a worker (relay/worker_relay.rs).         *)
(*                                                                         *)
(* The sqlx driver calls that change state (apply, lock, unlock, the       *)
(* PRAGMAs, the insert of mark_as_migrated) and the migrate of a Rust      *)
(* migration may fail; the outcome is an input of the action.  Queries     *)
(* that only read (dirty_version, list_applied_migrations, the SELECT of   *)
(* has_migrated) and pool.acquire are taken to return.                     *)
(***************************************************************************)
EXTENDS Integers, Sequences, FiniteSets, TLC

\* ------------------------------------------------------------------ bounds

\* Registered versions are 1..MaxVersion.
MaxVersion == 2
\* Number of migrate_up_to calls in one behaviour.
MaxCalls == 2
\* Number of times a new Migrator (a new build of the node) replaces the registry.
MaxRestarts == 1

\* Length of the collections handed to new and to set_rust_migrations.
MaxSteps == 3
\* Number of set_rust_migrations calls on one Migrator.
MaxSets == 2

\* Number of messages sent to the worker.
MaxMessages == 2

\* ------------------------------------------------------------- the registry

\* Version::MIN
VersionMIN == 0
\* Version::MAX (i64::MAX): any value above every registered version
VersionMAX == MaxVersion + 1

Versions == 1..MaxVersion

\* Checksums of SQL bodies: an edited script has another checksum.
Checksums == {"c1", "c2"}

\* InitializeFromSqlite::name()
InitializeFromSqliteName == "InitializeFromSqlite"

\* RustMigration::name() of the ordinary Rust migration registered at version v
RustNames == <<"rust_1", "rust_2", "rust_3", "rust_4">>
RustName(v) == RustNames[v]

\* Option<T>: None is <<>>, Some(x) is <<x>>
None == <<>>
Some(x) == <<x>>

\* sqlx::migrate::Migration, the fields the engine reads
SqlxMigration(v, c, d) ==
    [kind |-> "Sql", version |-> v, checksum |-> c, down |-> d, name |-> ""]

\* Box<dyn RustMigration>: version() and name()
RustMigration(v, n) ==
    [kind |-> "Rust", version |-> v, checksum |-> "", down |-> FALSE, name |-> n]

\* NextMigration::is_sql
IsSql(m) == m.kind = "Sql"

\* A duplicate check that compares each version with the one before it only.
RECURSIVE CheckDuplicatesNeighbours(_, _)
CheckDuplicatesNeighbours(iter, versions) ==
    IF iter = <<>> THEN "Ok"
    ELSE IF Head(iter) \in versions THEN "DuplicateVersion"
    ELSE CheckDuplicatesNeighbours(Tail(iter), {Head(iter)})

\* Migrator::check_duplicates as the code runs it: the versions of the iterator
\* are inserted into `versions` one by one, and the first one that is already
\* there is the error "Found duplicate migration version".
RECURSIVE CheckDuplicatesIter(_, _)
CheckDuplicatesIter(iter, versions) ==
    IF iter = <<>> THEN "Ok"
    ELSE IF Head(iter) \in versions THEN "DuplicateVersion"
    ELSE CheckDuplicatesIter(Tail(iter), versions \cup {Head(iter)})

\* Migrator::check_duplicates: Ok iff no two elements share a version
CheckDuplicates(migrations) ==
    \A a, b \in migrations : a.version = b.version => a = b

\* The SQL collections handed to Migrator::new: per version no script, an up
\* script with one of the checksums, or a down script.
SqlRegistries ==
    { { SqlxMigration(v, IF f[v] = "down" THEN "c1" ELSE f[v], f[v] = "down") :
            v \in { w \in Versions : f[w] # "absent" } } :
        f \in [Versions -> {"absent", "down"} \cup Checksums] }

\* The Rust collections handed to set_rust_migrations: per version no migration,
\* an ordinary one, or the import from the legacy SQLite database.
RustRegistries ==
    { { RustMigration(v, IF f[v] = "import" THEN InitializeFromSqliteName ELSE RustName(v)) :
            v \in { w \in Versions : f[w] # "absent" } } :
        f \in [Versions -> {"absent", "rust", "import"}] }

\* --------------------------------------------------------------- ordering

\* A comparison that puts the Rust migration first at equal versions.
CmpRustFirst(a, b) ==
    IF a.version < b.version THEN "Less"
    ELSE IF a.version > b.version THEN "Greater"
    ELSE IF IsSql(a) /\ IsSql(b) THEN "Equal"
    ELSE IF IsSql(a) /\ ~IsSql(b) THEN "Greater"
    ELSE IF ~IsSql(a) /\ IsSql(b) THEN "Less"
    ELSE "unreachable"

\* impl Ord for NextMigration: compare the versions; at equal version the SQL
\* migration goes first.  Two Rust migrations of one version are unreachable!().
Cmp(a, b) ==
    IF a.version < b.version THEN "Less"
    ELSE IF a.version > b.version THEN "Greater"
    ELSE IF IsSql(a) /\ IsSql(b) THEN "Equal"
    ELSE IF IsSql(a) /\ ~IsSql(b) THEN "Less"
    ELSE IF ~IsSql(a) /\ IsSql(b) THEN "Greater"
    ELSE "unreachable"

\* migrations.sort(): the sequence of the elements of S in the order of Cmp.
\* check_duplicates leaves no two elements of one family with one version, so
\* no two elements of S compare Equal and the sorted sequence is unique.
RECURSIVE Sort(_)
Sort(S) ==
    IF S = {} THEN <<>>
    ELSE LET m == CHOOSE x \in S : \A y \in S \ {x} : Cmp(x, y) = "Less"
         IN <<m>> \o Sort(S \ {m})

\* A stream that takes every registered migration, whatever up_to is.
MigrationsUnfiltered(sql, rust, up_to) ==
    Sort(sql \cup rust)

\* A stream that leaves out the migrations of version up_to.
MigrationsBelow(sql, rust, up_to) ==
    Sort({ m \in sql : m.version < up_to } \cup { m \in rust : m.version < up_to })

\* run_migrations_impl, the stream: the migrations of both families with
\* version <= up_to, chained and sorted.
Migrations(sql, rust, up_to) ==
    Sort({ m \in sql : m.version <= up_to } \cup { m \in rust : m.version <= up_to })

\* ------------------------------------------------------- status and results

\* MigrationStatus and the Result around it, as one record shape:
\* ok = FALSE is Err(..), kind names the variant or the error.
UpToDate(v) == [ok |-> TRUE, kind |-> "UpToDate", version |-> v, last |-> None, reason |-> ""]
Todo(last_applied, next) ==
    [ok |-> TRUE, kind |-> "Todo", version |-> next, last |-> last_applied, reason |-> ""]
Failed(v, failure) ==
    [ok |-> TRUE, kind |-> "Failed", version |-> v, last |-> None, reason |-> failure]
Err(e, v) == [ok |-> FALSE, kind |-> e, version |-> v, last |-> None, reason |-> ""]
NoResult == [ok |-> FALSE, kind |-> "", version |-> 0, last |-> None, reason |-> ""]

\* MigrationResult::down_migration(): what apply_sql_migration answers for a
\* down migration.  A down migration is a no-op of the applier.
DownMigrationResult == "MigrationSuccess"

\* ---------------------------------------------------------- the databases

\* A database: the rows of _sqlx_migrations (written by the driver's apply)
\* and the names in _rust_migrations (written by mark_as_migrated).
FreshDatabase == [sqlx_migrations |-> {}, rust_migrations |-> {}]

\* A dirty_version that never finds a row.
DirtyVersionUnseen(database) ==
    None

\* connection.dirty_version(): the lowest version of a row with success = false
DirtyVersion(database) ==
    LET dirty == { r.version : r \in { x \in database.sqlx_migrations : ~x.success } }
    IN IF dirty = {} THEN None
       ELSE Some(CHOOSE v \in dirty : \A w \in dirty : v <= w)

\* connection.list_applied_migrations(): every row, version and checksum
ListAppliedMigrations(database) ==
    { [version |-> r.version, checksum |-> r.checksum] : r \in database.sqlx_migrations }

\* applied_migrations.last(): the list is ordered by version
LastApplied(applied) ==
    IF applied = {} THEN None
    ELSE Some(CHOOSE v \in { r.version : r \in applied } :
                \A r \in applied : r.version <= v)

\* A driver that records another checksum than the one of the script it ran.
ApplyOtherChecksum(database, migration, outcome) ==
    CASE outcome = "ok" ->
            [database EXCEPT !.sqlx_migrations = @ \cup
                {[version |-> migration.version,
                  checksum |-> CHOOSE k \in Checksums : k # migration.checksum,
                  success |-> TRUE]}]
      [] outcome = "dirty" ->
            [database EXCEPT !.sqlx_migrations = @ \cup
                {[version |-> migration.version, checksum |-> migration.checksum,
                  success |-> FALSE]}]
      [] OTHER -> database

\* connection.apply(migration): the driver runs the script and inserts the row
\* with the migration's checksum ("ok"); or the script fails and the driver
\* either rolls everything back ("rollback") or leaves the row with
\* success = false ("dirty").
Apply(database, migration, outcome) ==
    CASE outcome = "ok" ->
            [database EXCEPT !.sqlx_migrations = @ \cup
                {[version |-> migration.version, checksum |-> migration.checksum,
                  success |-> TRUE]}]
      [] outcome = "dirty" ->
            [database EXCEPT !.sqlx_migrations = @ \cup
                {[version |-> migration.version, checksum |-> migration.checksum,
                  success |-> FALSE]}]
      [] OTHER -> database

\* A has_migrated that finds a row for every name.
HasMigratedAlways(database, migration_name) ==
    TRUE

\* A has_migrated that counts the rows of the table, whatever their name.
HasMigratedAnyRow(database, migration_name) ==
    database.rust_migrations # {}

\* Migrator::has_migrated: SELECT COUNT(*) FROM _rust_migrations WHERE name = $1
HasMigrated(database, migration_name) ==
    migration_name \in database.rust_migrations

\* A mark that writes no row.
MarkAsMigratedNowhere(database, migration_name) ==
    database

\* Migrator::mark_as_migrated: INSERT .. ON CONFLICT (name) DO UPDATE
MarkAsMigrated(database, migration_name) ==
    [database EXCEPT !.rust_migrations = @ \cup {migration_name}]

\* ------------------------------------------------ the steps of the stream

\* An entry of the record of what a call did: op is "apply" (the driver ran a
\* SQL script and wrote its row), "apply_failed", "migrate" (a Rust migration
\* ran), "migrate_failed" or "mark" (a row of _rust_migrations was written).
Event(op, migration) == [op |-> op, migration |-> migration]

\* What the history tables tell a migration by: a SQL migration by its
\* version, a Rust migration by its name.
Id(migration) ==
    [kind |-> migration.kind,
     version |-> IF IsSql(migration) THEN migration.version ELSE 0,
     name |-> migration.name]

\* The journal after the events of one step: which operations succeeded at
\* least once on which migration, and which did so again.
Journal(j, events) ==
    LET new == { [op |-> events[i].op, id |-> Id(events[i].migration)] :
                    i \in { k \in DOMAIN events :
                                events[k].op \in {"apply", "migrate", "mark"} } }
    IN [once |-> j.once \cup new, twice |-> j.twice \cup (j.once \cap new)]

\* A check that takes every applied row for a match.
NeedsSqlMigrationAnyChecksum(migration, applied_migrations) ==
    IF migration.down THEN "false"
    ELSE IF \E a \in applied_migrations : a.version = migration.version
         THEN "false" ELSE "true"

\* A check that treats a down script like an up script.
NeedsSqlMigrationDownToo(migration, applied_migrations) ==
    LET found == { a \in applied_migrations : a.version = migration.version }
    IN IF found = {} THEN "true"
       ELSE IF \E a \in found : migration.checksum # a.checksum THEN "Err"
       ELSE "false"

\* Migrator::needs_sql_migration: "false", "true" or the checksum error
NeedsSqlMigration(migration, applied_migrations) ==
    IF migration.down THEN "false"
    ELSE LET found == { a \in applied_migrations : a.version = migration.version }
         IN IF found # {}
            THEN IF \E a \in found : migration.checksum # a.checksum
                 THEN "Err" ELSE "false"
            ELSE "true"

\* A check that takes any row of the table for the row of the migration.
NeedsRustMigrationIfNoRow(migration, database) ==
    IF database.rust_migrations = {} THEN "true" ELSE "false"

\* Migrator::needs_rust_migration: the name is looked up in the database of the
\* connection, for every Rust migration
NeedsRustMigration(migration, database) ==
    IF ~HasMigrated(database, migration.name) THEN "true" ELSE "false"

\* The checksums that are valid UTF-8: a checksum is a digest, any bytes.
Utf8 == {"c1"}

\* String::from_utf8(checksum.to_vec()).unwrap_or(message)
FromUtf8OrElse(checksum, message) == IF checksum \in Utf8 THEN checksum ELSE message

\* MigrationResult::incorrect_checksum(description, sql, actual_checksum,
\* expected_checksum): the failure IncorrectChecksum with what it reports.
IncorrectChecksum(description, actual_checksum, expected_checksum) ==
    [description |-> description, actual |-> actual_checksum,
     expected |-> expected_checksum]

\* What apply_sql_migration hands to incorrect_checksum for a migration whose
\* applied row has another checksum.
ReportedChecksums(migration, applied_migrations) ==
    IncorrectChecksum(
        migration.version,
        FromUtf8OrElse(migration.checksum,
                       "actual migration checksum cannot be displayed"),
        FromUtf8OrElse(migration.checksum,
                       "expected migration checksum cannot be displayed"))

\* An applier that does not look at the applied migrations.
ApplySqlMigrationAgain(migration, applied_migrations, database, outcome) ==
    IF migration.down
    THEN [result |-> DownMigrationResult, db |-> database, events |-> <<>>]
    ELSE IF outcome = "ok"
         THEN [result |-> "MigrationSuccess",
               db |-> Apply(database, migration, outcome),
               events |-> <<Event("apply", migration)>>]
         ELSE [result |-> "ApplyError",
               db |-> Apply(database, migration, outcome),
               events |-> <<Event("apply_failed", migration)>>]

\* An applier that takes every applied row for a match.
ApplySqlMigrationAnyChecksum(migration, applied_migrations, database, outcome) ==
    IF migration.down
    THEN [result |-> DownMigrationResult, db |-> database, events |-> <<>>]
    ELSE IF \E a \in applied_migrations : a.version = migration.version
         THEN [result |-> "MigrationSuccess", db |-> database, events |-> <<>>]
         ELSE IF outcome = "ok"
              THEN [result |-> "MigrationSuccess",
                    db |-> Apply(database, migration, outcome),
                    events |-> <<Event("apply", migration)>>]
              ELSE [result |-> "ApplyError",
                    db |-> Apply(database, migration, outcome),
                    events |-> <<Event("apply_failed", migration)>>]

\* Migrator::apply_sql_migration.  outcome is what the driver's apply does when
\* it is called.
ApplySqlMigration(migration, applied_migrations, database, outcome) ==
    IF migration.down
    THEN [result |-> DownMigrationResult, db |-> database, events |-> <<>>]
    ELSE LET found == { a \in applied_migrations : a.version = migration.version }
         IN IF found # {}
            THEN IF \E a \in found : migration.checksum # a.checksum
                 THEN [result |-> "IncorrectChecksum", db |-> database, events |-> <<>>]
                 ELSE [result |-> "MigrationSuccess", db |-> database, events |-> <<>>]
            ELSE IF outcome = "ok"
                 THEN [result |-> "MigrationSuccess",
                       db |-> Apply(database, migration, outcome),
                       events |-> <<Event("apply", migration)>>]
                 ELSE [result |-> "ApplyError",
                       db |-> Apply(database, migration, outcome),
                       events |-> <<Event("apply_failed", migration)>>]

\* A Rust migration that is run and never marked.
MigrateAndForget(migration, target, outcome) ==
    IF HasMigrated(target, migration.name)
    THEN [result |-> "MigrationSuccess", target |-> target, events |-> <<>>]
    ELSE IF outcome = "migrate_err"
         THEN [result |-> "MigrateError", target |-> target,
               events |-> <<Event("migrate_failed", migration)>>]
         ELSE [result |-> "MigrationSuccess", target |-> target,
               events |-> <<Event("migrate", migration)>>]

\* A Rust migration that is marked whether its migrate returned Ok or not.
MigrateAndMarkAnyway(migration, target, outcome) ==
    IF HasMigrated(target, migration.name)
    THEN [result |-> "MigrationSuccess", target |-> target, events |-> <<>>]
    ELSE CASE outcome = "migrate_err" ->
                [result |-> "MigrateError",
                 target |-> MarkAsMigrated(target, migration.name),
                 events |-> <<Event("migrate_failed", migration)>>]
           [] outcome = "mark_err" ->
                [result |-> "MarkError", target |-> target,
                 events |-> <<Event("migrate", migration)>>]
           [] OTHER ->
                [result |-> "MigrationSuccess",
                 target |-> MarkAsMigrated(target, migration.name),
                 events |-> <<Event("migrate", migration), Event("mark", migration)>>]

\* A Rust migration whose row is written again when it is already there.
MigrateAndMarkAgain(migration, target, outcome) ==
    IF HasMigrated(target, migration.name)
    THEN [result |-> "MigrationSuccess",
          target |-> MarkAsMigrated(target, migration.name),
          events |-> <<Event("mark", migration)>>]
    ELSE CASE outcome = "migrate_err" ->
                [result |-> "MigrateError", target |-> target,
                 events |-> <<Event("migrate_failed", migration)>>]
           [] outcome = "mark_err" ->
                [result |-> "MarkError", target |-> target,
                 events |-> <<Event("migrate", migration)>>]
           [] OTHER ->
                [result |-> "MigrationSuccess",
                 target |-> MarkAsMigrated(target, migration.name),
                 events |-> <<Event("migrate", migration), Event("mark", migration)>>]

\* The body shared by the two branches of apply_rust_migration: when `target`
\* has no row for the name, run migrate and then mark_as_migrated on `target`.
\* outcome: "ok", "migrate_err" (migrate returns an error) or "mark_err" (the
\* clock or the insert of mark_as_migrated fails).
MigrateAndMark(migration, target, outcome) ==
    IF HasMigrated(target, migration.name)
    THEN [result |-> "MigrationSuccess", target |-> target, events |-> <<>>]
    ELSE CASE outcome = "migrate_err" ->
                [result |-> "MigrateError", target |-> target,
                 events |-> <<Event("migrate_failed", migration)>>]
           [] outcome = "mark_err" ->
                [result |-> "MarkError", target |-> target,
                 events |-> <<Event("migrate", migration)>>]
           [] OTHER ->
                [result |-> "MigrationSuccess",
                 target |-> MarkAsMigrated(target, migration.name),
                 events |-> <<Event("migrate", migration), Event("mark", migration)>>]

\* An applier that runs the import on the connection's database when there is
\* no legacy database.
ApplyRustMigrationWithoutLegacy(migration, database, legacy, legacy_database, outcome) ==
    IF migration.name = InitializeFromSqliteName /\ legacy
    THEN LET r == MigrateAndMark(migration, legacy_database, outcome)
         IN [result |-> r.result, db |-> database, legacy_db |-> r.target,
             events |-> r.events]
    ELSE LET r == MigrateAndMark(migration, database, outcome)
         IN [result |-> r.result, db |-> r.target, legacy_db |-> legacy_database,
             events |-> r.events]

\* Migrator::apply_rust_migration.  legacy is whether legacy_sqlite_database is
\* Some; the import from SQLite is tracked in the legacy database, every other
\* Rust migration in the database of the connection.
ApplyRustMigration(migration, database, legacy, legacy_database, outcome) ==
    IF migration.name = InitializeFromSqliteName
    THEN IF legacy
         THEN LET r == MigrateAndMark(migration, legacy_database, outcome)
              IN [result |-> r.result, db |-> database, legacy_db |-> r.target,
                  events |-> r.events]
         ELSE [result |-> "MigrationSuccess", db |-> database,
               legacy_db |-> legacy_database, events |-> <<>>]
    ELSE LET r == MigrateAndMark(migration, database, outcome)
         IN [result |-> r.result, db |-> r.target, legacy_db |-> legacy_database,
             events |-> r.events]

\* ------------------------------------------------------------------ state

VARIABLES
    sql_migrator,            \* Migrator.sql_migrator: the SQL migrations
    rust_migrations,         \* Migrator.rust_migrations
    legacy_sqlite_database,  \* Migrator.legacy_sqlite_database is Some
    backend_name,            \* connection.backend_name() of the pool's database
    db,                      \* the database of the pool
    legacy_db,               \* the legacy SQLite database
    advisory_lock,           \* the callers whose connection holds the Postgres lock
    call,                    \* per caller: the position and locals of its call
    calls,                   \* migrate_up_to calls started so far
    restarts,                \* registries installed after the first
    journal,                 \* what ran on the databases so far, over all calls
    construction,            \* how the Migrator was built: the calls of new and
                             \* set_rust_migrations, their arguments and results
    relay                    \* the WorkerRelay of one worker of the node, its
                             \* Context and what the router holds for its address

vars == <<sql_migrator, rust_migrations, legacy_sqlite_database, backend_name, db,
          legacy_db, advisory_lock, call, calls, restarts, journal, construction, relay>>

\* The tasks that may call the Migrator, and the ones that do so one after the
\* other in Spec.
Callers == {"a", "b"}
Sequential == {"a"}

\* A caller that is in no call.  The fields after locking_mode record what the
\* call did: they are read by no action.
IdleCall ==
    [pc |-> "idle", entry |-> "migrate_up_to", up_to |-> 0, mode |-> "DryRun",
     migrations |-> <<>>,
     applied_migrations |-> {}, last_applied_migration |-> None,
     next_migration_to_apply |-> 0, last_migrated_version |-> 0,
     result |-> NoResult, ret |-> NoResult, is_sqlite |-> FALSE,
     connection |-> "none", locking_mode |-> "NORMAL",
     log |-> <<>>, start |-> None, plan |-> NoResult, locked |-> FALSE,
     release |-> "none", prev |-> None, failure |-> None]

\* No worker is started.
NoRelay ==
    [pc |-> "none", initialize |-> "", receiver |-> <<>>, closed |-> FALSE,
     ctrl_rx |-> FALSE, sent |-> 0, handled |-> <<>>, reported |-> {},
     ended |-> "", stopped_from_router |-> FALSE,
     shutdown |-> "", router |-> "",
     stop_address |-> "", stop_ack |-> "", workers |-> {}, stopping |-> FALSE]

\* The Migrator is built: new and set_rust_migrations returned Ok.  The
\* arguments are kept only where the construction itself is under study.
Constructed ==
    [migrator |-> "built", new |-> "Ok", set_rust_migrations |-> "Ok",
     sql |-> <<>>, rust |-> <<>>, sets |-> 0]

Init ==
    /\ sql_migrator \in SqlRegistries
    /\ CheckDuplicates(sql_migrator)
    /\ \A m \in sql_migrator : m.checksum = "c1"
    /\ rust_migrations \in RustRegistries
    /\ CheckDuplicates(rust_migrations)
    /\ legacy_sqlite_database \in BOOLEAN
    /\ legacy_sqlite_database =>
            \E m \in rust_migrations : m.name = InitializeFromSqliteName
    /\ backend_name \in {"SQLite", "PostgreSQL"}
    /\ db = FreshDatabase
    /\ legacy_db = FreshDatabase
    /\ advisory_lock = {}
    /\ call = [c \in Callers |-> IdleCall]
    /\ calls = 0
    /\ restarts = 0
    /\ journal = [once |-> {}, twice |-> {}]
    /\ construction = Constructed
    /\ relay = NoRelay

\* ---------------------------------------------------------- migrate_up_to

\* The end of a call: the value goes to the caller, the PoolConnection is
\* dropped (it goes back to the pool) and the locals are gone.
Return(cl, value) ==
    [cl EXCEPT !.pc = "done", !.ret = value, !.connection = "pooled",
               !.migrations = <<>>, !.applied_migrations = {},
               !.last_applied_migration = None, !.next_migration_to_apply = 0,
               !.last_migrated_version = 0]

\* A migrate_up_to that goes on to the lock whatever the planner reports.
NeedsMigrationLocks(cl, status) ==
    LET planned == [cl EXCEPT !.plan = status]
    IN IF status.ok /\ status.kind \in {"UpToDate", "Todo"}
       THEN [planned EXCEPT !.pc = "lock"]
       ELSE Return(planned, status)

\* A needs_migration that hands the status Failed on to the caller.
NeedsMigrationFailedStatus(cl, status) ==
    LET planned == [cl EXCEPT !.plan = status]
    IN CASE status.ok /\ status.kind = "UpToDate" -> Return(planned, UpToDate(cl.up_to))
         [] status.ok /\ status.kind = "Todo" -> [planned EXCEPT !.pc = "lock"]
         [] OTHER -> Return(planned, status)

\* A migrate_up_to that hands on the version the planner found.
NeedsMigrationPlannedVersion(cl, status) ==
    LET planned == [cl EXCEPT !.plan = status]
    IN CASE status.ok /\ status.kind = "UpToDate" -> Return(planned, status)
         [] status.ok /\ status.kind = "Todo" -> [planned EXCEPT !.pc = "lock"]
         [] status.ok /\ status.kind = "Failed" ->
                Return(planned, Err("PreviouslyFailed", status.version))
         [] OTHER -> Return(planned, status)

\* A migrate_up_to that takes a failure found by the dry run for work to do
\* again.
NeedsMigrationRetriesFailed(cl, status) ==
    LET planned == [cl EXCEPT !.plan = status]
    IN CASE status.ok /\ status.kind = "UpToDate" -> Return(planned, UpToDate(cl.up_to))
         [] status.ok /\ status.kind \in {"Todo", "Failed"} -> [planned EXCEPT !.pc = "lock"]
         [] OTHER -> Return(planned, status)

\* needs_migration on the status of the dry run, and the lines of
\* migrate_up_to after it: no migration needed is Ok(UpToDate(up_to)), Todo
\* goes on to the lock, Failed and errors are returned as errors.
NeedsMigration(cl, status) ==
    LET planned == [cl EXCEPT !.plan = status]
    IN CASE status.ok /\ status.kind = "UpToDate" -> Return(planned, UpToDate(cl.up_to))
         [] status.ok /\ status.kind = "Todo" -> [planned EXCEPT !.pc = "lock"]
         [] status.ok /\ status.kind = "Failed" ->
                Return(planned, Err("PreviouslyFailed", status.version))
         [] OTHER -> Return(planned, status)

\* A migrate_up_to that returns the error of the applier before the unlock.
FinishBeforeUnlock(cl, status) ==
    IF cl.mode = "DryRun"
    THEN NeedsMigration(cl, status)
    ELSE IF status.ok
         THEN [cl EXCEPT !.pc = "unlock", !.result = status]
         ELSE Return([cl EXCEPT !.result = status], status)

\* A migration_status that goes on like migrate_up_to after its dry run.
FinishStatusLikeMigrate(cl, status) ==
    IF cl.mode = "DryRun"
    THEN NeedsMigration(cl, status)
    ELSE [cl EXCEPT !.pc = "unlock", !.result = status]

\* What follows the return of run_migrations_impl: in migration_status the
\* status is the value of the call; in the dry run of migrate_up_to
\* needs_migration, in its applier `let result = ..` and then the unlock.
Finish(cl, status) ==
    IF cl.entry = "migration_status"
    THEN Return([cl EXCEPT !.plan = status], status)
    ELSE IF cl.mode = "DryRun"
         THEN NeedsMigration(cl, status)
         ELSE [cl EXCEPT !.pc = "unlock", !.result = status]

\* migrate_up_to(pool, up_to): pool.acquire, and the dry run begins.
MigrateUpTo(c, up_to) ==
    /\ call[c].pc \in {"idle", "done"}
    /\ calls < MaxCalls
    /\ calls' = calls + 1
    /\ call' = [call EXCEPT ![c] =
            [IdleCall EXCEPT
                !.pc = "dirty_version", !.up_to = up_to, !.mode = "DryRun",
                !.connection = "acquired", !.locking_mode = call[c].locking_mode,
                !.start = Some([db |-> db, legacy_db |-> legacy_db]),
                !.prev = IF call[c].pc = "done" /\ call[c].ret.ok
                            /\ call[c].ret.kind = "UpToDate"
                         THEN Some([up_to |-> call[c].up_to, start |-> call[c].start[1],
                                    version |-> call[c].ret.version])
                         ELSE None]]
    /\ UNCHANGED <<sql_migrator, rust_migrations, legacy_sqlite_database, backend_name,
                   db, legacy_db, advisory_lock, restarts, journal,
                   construction, relay>>

\* migration_status(pool): pool.acquire, and the dry run up to Version::MAX
\* begins.
MigrationStatus(c) ==
    /\ call[c].pc \in {"idle", "done"}
    /\ calls < MaxCalls
    /\ calls' = calls + 1
    /\ call' = [call EXCEPT ![c] =
            [IdleCall EXCEPT
                !.pc = "dirty_version", !.entry = "migration_status",
                !.up_to = VersionMAX, !.mode = "DryRun",
                !.connection = "acquired", !.locking_mode = call[c].locking_mode,
                !.start = Some([db |-> db, legacy_db |-> legacy_db]),
                !.prev = IF call[c].pc = "done" /\ call[c].entry = "migrate_up_to"
                            /\ call[c].ret.ok /\ call[c].ret.kind = "UpToDate"
                         THEN Some([up_to |-> call[c].up_to, start |-> call[c].start[1],
                                    version |-> call[c].ret.version])
                         ELSE None]]
    /\ UNCHANGED <<sql_migrator, rust_migrations, legacy_sqlite_database, backend_name,
                   db, legacy_db, advisory_lock, restarts, journal,
                   construction, relay>>

\* A run_migrations_impl that goes on whatever dirty_version returns.
ReadDirtyVersionBlind(c) ==
    /\ call[c].pc = "dirty_version"
    /\ call' = [call EXCEPT ![c] = [call[c] EXCEPT !.pc = "list_applied"]]
    /\ UNCHANGED <<sql_migrator, rust_migrations, legacy_sqlite_database, backend_name,
                   db, legacy_db, advisory_lock, calls, restarts, journal,
                   construction, relay>>

\* run_migrations_impl: ensure_migrations_table and dirty_version
ReadDirtyVersion(c) ==
    /\ call[c].pc = "dirty_version"
    /\ LET version == DirtyVersion(db)
       IN call' = [call EXCEPT ![c] =
            IF version # None
            THEN Finish(call[c], Failed(version[1], "DirtyVersion"))
            ELSE [call[c] EXCEPT !.pc = "list_applied"]]
    /\ UNCHANGED <<sql_migrator, rust_migrations, legacy_sqlite_database, backend_name,
                   db, legacy_db, advisory_lock, calls, restarts, journal,
                   construction, relay>>

\* run_migrations_impl: the sorted stream and list_applied_migrations
ListApplied(c) ==
    /\ call[c].pc = "list_applied"
    /\ LET migrations == Migrations(sql_migrator, rust_migrations, call[c].up_to)
           applied == ListAppliedMigrations(db)
       IN call' = [call EXCEPT ![c] =
            [call[c] EXCEPT
                !.pc = "loop", !.migrations = migrations,
                !.applied_migrations = applied,
                !.last_applied_migration = LastApplied(applied),
                !.next_migration_to_apply =
                    IF migrations = <<>> THEN VersionMIN
                    ELSE migrations[Len(migrations)].version,
                !.last_migrated_version = VersionMIN]]
    /\ UNCHANGED <<sql_migrator, rust_migrations, legacy_sqlite_database, backend_name,
                   db, legacy_db, advisory_lock, calls, restarts, journal,
                   construction, relay>>

\* Mode::DryRun, one turn of the loop
DryRunStep(c) ==
    /\ call[c].pc = "loop"
    /\ call[c].mode = "DryRun"
    /\ call[c].migrations # <<>>
    /\ LET migration == Head(call[c].migrations)
           needs_migration ==
               IF IsSql(migration)
               THEN NeedsSqlMigration(migration, call[c].applied_migrations)
               ELSE NeedsRustMigration(migration, db)
       IN call' = [call EXCEPT ![c] =
            CASE needs_migration = "Err" ->
                    Finish(call[c], Err("ChecksumMismatch", migration.version))
              [] needs_migration = "true" ->
                    Finish(call[c], Todo(call[c].last_applied_migration,
                                         call[c].next_migration_to_apply))
              [] OTHER ->
                    [call[c] EXCEPT !.migrations = Tail(@),
                                    !.last_migrated_version = migration.version]]
    /\ UNCHANGED <<sql_migrator, rust_migrations, legacy_sqlite_database, backend_name,
                   db, legacy_db, advisory_lock, calls, restarts, journal,
                   construction, relay>>

\* Either mode, the loop is over: UpToDate(last_migrated_version)
LoopEnd(c) ==
    /\ call[c].pc = "loop"
    /\ call[c].migrations = <<>>
    /\ call' = [call EXCEPT ![c] =
            Finish(call[c], UpToDate(call[c].last_migrated_version))]
    /\ UNCHANGED <<sql_migrator, rust_migrations, legacy_sqlite_database, backend_name,
                   db, legacy_db, advisory_lock, calls, restarts, journal,
                   construction, relay>>

\* A loop body that makes a status Failed of every error of a step.
AfterStepAllFailed(cl, migration, result, events) ==
    LET logged == [cl EXCEPT !.log = @ \o events]
    IN IF result = "MigrationSuccess"
       THEN [logged EXCEPT !.migrations = Tail(@),
                           !.last_migrated_version = migration.version]
       ELSE Finish(logged, Failed(migration.version, result))

\* A loop that goes on to the next migration whatever the step returned.
AfterStepGoesOn(cl, migration, result, events) ==
    LET logged == [cl EXCEPT !.log = @ \o events]
    IN [logged EXCEPT !.migrations = Tail(@),
                      !.last_migrated_version =
                            IF result = "MigrationSuccess" THEN migration.version ELSE @]

\* The turn of the applier's loop on the outcome of one step: success goes on
\* to the next migration, a MigrationFailure is the status Failed, an error
\* is propagated by `?`.
AfterStep(cl, migration, result, events) ==
    LET logged == [cl EXCEPT !.log = @ \o events]
    IN CASE result = "MigrationSuccess" ->
                [logged EXCEPT !.migrations = Tail(@),
                               !.last_migrated_version = migration.version]
         [] result = "IncorrectChecksum" ->
                Finish(logged, Failed(migration.version, result))
         [] OTHER -> Finish(logged, Err(result, migration.version))

\* Mode::ApplyMigrations, one turn of the loop on a SQL migration
ApplySqlStep(c, outcome) ==
    /\ call[c].pc = "loop"
    /\ call[c].mode = "ApplyMigrations"
    /\ call[c].migrations # <<>>
    /\ IsSql(Head(call[c].migrations))
    /\ LET migration == Head(call[c].migrations)
           r == ApplySqlMigration(migration, call[c].applied_migrations, db, outcome)
       IN /\ r.events = <<>> => outcome = "ok"
          /\ db' = r.db
          /\ journal' = Journal(journal, r.events)
          /\ call' = [call EXCEPT ![c] =
                [AfterStep(call[c], migration, r.result, r.events) EXCEPT
                    !.failure = IF r.result = "IncorrectChecksum"
                                THEN Some(ReportedChecksums(migration,
                                                            call[c].applied_migrations))
                                ELSE @]]
    /\ UNCHANGED <<sql_migrator, rust_migrations, legacy_sqlite_database, backend_name,
                   legacy_db, advisory_lock, calls, restarts,
                   construction, relay>>

\* Mode::ApplyMigrations, one turn of the loop on a Rust migration
ApplyRustStep(c, outcome) ==
    /\ call[c].pc = "loop"
    /\ call[c].mode = "ApplyMigrations"
    /\ call[c].migrations # <<>>
    /\ ~IsSql(Head(call[c].migrations))
    /\ LET migration == Head(call[c].migrations)
           r == ApplyRustMigration(migration, db, legacy_sqlite_database, legacy_db,
                                   outcome)
       IN /\ r.events = <<>> => outcome = "ok"
          /\ db' = r.db
          /\ legacy_db' = r.legacy_db
          /\ journal' = Journal(journal, r.events)
          /\ call' = [call EXCEPT ![c] = AfterStep(call[c], migration, r.result, r.events)]
    /\ UNCHANGED <<sql_migrator, rust_migrations, legacy_sqlite_database, backend_name,
                   advisory_lock, calls, restarts,
                   construction, relay>>

\* A lock that leaves the locking mode of SQLite as it was.
LockedNormal(cl, is_sqlite) ==
    [cl EXCEPT !.pc = "dirty_version", !.mode = "ApplyMigrations",
               !.is_sqlite = is_sqlite, !.locked = TRUE]

\* The applier begins on the connection that took the lock.
Locked(cl, is_sqlite) ==
    [cl EXCEPT !.pc = "dirty_version", !.mode = "ApplyMigrations",
               !.is_sqlite = is_sqlite, !.locked = TRUE,
               !.locking_mode = IF is_sqlite THEN "EXCLUSIVE" ELSE @]

\* A migrate_up_to that goes on to the applier when the PRAGMA failed.
LockSqliteFailsOpen(c, ok) ==
    /\ call[c].pc = "lock"
    /\ backend_name = "SQLite"
    /\ call' = [call EXCEPT ![c] =
            IF ok THEN Locked(call[c], TRUE)
            ELSE [call[c] EXCEPT !.pc = "dirty_version", !.mode = "ApplyMigrations",
                                 !.is_sqlite = TRUE]]
    /\ UNCHANGED <<sql_migrator, rust_migrations, legacy_sqlite_database, backend_name,
                   db, legacy_db, advisory_lock, calls, restarts, journal,
                   construction, relay>>

\* migrate_up_to on SQLite: PRAGMA locking_mode = EXCLUSIVE
LockSqlite(c, ok) ==
    /\ call[c].pc = "lock"
    /\ backend_name = "SQLite"
    /\ call' = [call EXCEPT ![c] =
            IF ok THEN Locked(call[c], TRUE)
            ELSE Return([call[c] EXCEPT !.is_sqlite = TRUE], Err("LockError", 0))]
    /\ UNCHANGED <<sql_migrator, rust_migrations, legacy_sqlite_database, backend_name,
                   db, legacy_db, advisory_lock, calls, restarts, journal,
                   construction, relay>>

\* A connection.lock() that does not wait for the holder of the lock.
LockPostgresAtOnce(c, ok) ==
    /\ call[c].pc = "lock"
    /\ backend_name # "SQLite"
    /\ advisory_lock' = IF ok THEN advisory_lock \cup {c} ELSE advisory_lock
    /\ call' = [call EXCEPT ![c] =
            IF ok THEN Locked(call[c], FALSE)
            ELSE Return(call[c], Err("LockError", 0))]
    /\ UNCHANGED <<sql_migrator, rust_migrations, legacy_sqlite_database, backend_name,
                   db, legacy_db, calls, restarts, journal,
                   construction, relay>>

\* A migrate_up_to that takes the lock of the server on PostgreSQL only and
\* refuses every backend it does not know.
LockPostgresOnly(c, ok) ==
    /\ call[c].pc = "lock"
    /\ backend_name # "SQLite"
    /\ ok => advisory_lock \subseteq {c}
    /\ advisory_lock' = IF ok /\ backend_name = "PostgreSQL"
                        THEN advisory_lock \cup {c} ELSE advisory_lock
    /\ call' = [call EXCEPT ![c] =
            IF backend_name # "PostgreSQL" THEN Return(call[c], Err("UnknownBackend", 0))
            ELSE IF ok THEN Locked(call[c], FALSE)
            ELSE Return(call[c], Err("LockError", 0))]
    /\ UNCHANGED <<sql_migrator, rust_migrations, legacy_sqlite_database, backend_name,
                   db, legacy_db, calls, restarts, journal,
                   construction, relay>>

\* migrate_up_to on any other backend: connection.lock(), which waits for the
\* advisory lock of Postgres
LockPostgres(c, ok) ==
    /\ call[c].pc = "lock"
    /\ backend_name # "SQLite"
    /\ ok => advisory_lock \subseteq {c}
    /\ advisory_lock' = IF ok THEN advisory_lock \cup {c} ELSE advisory_lock
    /\ call' = [call EXCEPT ![c] =
            IF ok THEN Locked(call[c], FALSE)
            ELSE Return(call[c], Err("LockError", 0))]
    /\ UNCHANGED <<sql_migrator, rust_migrations, legacy_sqlite_database, backend_name,
                   db, legacy_db, calls, restarts, journal,
                   construction, relay>>

\* A migrate_up_to that reports UpToDate once the unlock returned.
UnlockedUpToDate(cl, ok) ==
    IF ok
    THEN Return([cl EXCEPT !.release = "ok"], UpToDate(cl.up_to))
    ELSE Return([cl EXCEPT !.release = "failed"], Err("UnlockError", 0))

\* The lines of migrate_up_to after the unlock: `result` when the unlock
\* returned, its error otherwise.
Unlocked(cl, ok) ==
    IF ok
    THEN Return([cl EXCEPT !.release = "ok"], cl.result)
    ELSE Return([cl EXCEPT !.release = "failed"], Err("UnlockError", 0))

\* migrate_up_to on SQLite: PRAGMA locking_mode = NORMAL
UnlockSqlite(c, ok) ==
    /\ call[c].pc = "unlock"
    /\ call[c].is_sqlite
    /\ call' = [call EXCEPT ![c] =
            Unlocked([call[c] EXCEPT !.locking_mode = IF ok THEN "NORMAL" ELSE @], ok)]
    /\ UNCHANGED <<sql_migrator, rust_migrations, legacy_sqlite_database, backend_name,
                   db, legacy_db, advisory_lock, calls, restarts, journal,
                   construction, relay>>

\* migrate_up_to on any other backend: connection.unlock()
UnlockPostgres(c, ok) ==
    /\ call[c].pc = "unlock"
    /\ ~call[c].is_sqlite
    /\ advisory_lock' = IF ok THEN advisory_lock \ {c} ELSE advisory_lock
    /\ call' = [call EXCEPT ![c] = Unlocked(call[c], ok)]
    /\ UNCHANGED <<sql_migrator, rust_migrations, legacy_sqlite_database, backend_name,
                   db, legacy_db, calls, restarts, journal,
                   construction, relay>>

\* ------------------------------------------------------- a new registry

\* The registry differs from the installed one in one migration: one SQL
\* script or one Rust migration was added, removed or replaced.
OneMigrationApart(sql, rust) ==
    \E v \in Versions :
        \/ /\ rust = rust_migrations
           /\ { m \in sql : m.version # v } = { m \in sql_migrator : m.version # v }
        \/ /\ sql = sql_migrator
           /\ { m \in rust : m.version # v } = { m \in rust_migrations : m.version # v }

\* The node is started again from a build whose migrations differ:
\* Migrator::new(sql) and set_rust_migrations(rust), both after
\* check_duplicates.  The connections of the old process are gone.
Restart(sql, rust) ==
    /\ \A c \in Callers : call[c].pc \in {"idle", "done"}
    /\ restarts < MaxRestarts
    /\ 0 < calls /\ calls < MaxCalls
    /\ CheckDuplicates(sql)
    /\ CheckDuplicates(rust)
    /\ <<sql, rust>> # <<sql_migrator, rust_migrations>>
    /\ OneMigrationApart(sql, rust)
    /\ sql_migrator' = sql
    /\ rust_migrations' = rust
    /\ restarts' = restarts + 1
    /\ advisory_lock' = {}
    /\ call' = [c \in Callers |-> IdleCall]
    /\ UNCHANGED <<legacy_sqlite_database, backend_name, db, legacy_db, calls, journal,
                   construction, relay>>

\* Between two runs of the node the checksum column of the applied row of
\* one version is overwritten in the database.
Tamper(version) ==
    /\ \A c \in Callers : call[c].pc \in {"idle", "done"}
    /\ 0 < calls /\ calls < MaxCalls
    /\ \E r \in db.sqlx_migrations : r.version = version /\ r.success
    /\ db' = [db EXCEPT !.sqlx_migrations =
                { IF r.version = version
                  THEN [r EXCEPT !.checksum = CHOOSE k \in Checksums : k # r.checksum]
                  ELSE r : r \in @ }]
    /\ advisory_lock' = {}
    /\ call' = [c \in Callers |-> IdleCall]
    /\ UNCHANGED <<sql_migrator, rust_migrations, legacy_sqlite_database, backend_name,
                   legacy_db, calls, restarts, journal,
                   construction, relay>>

\* ------------------------------------------------------ the specification

\* The ceilings of the calls: a version below the highest one, or Version::MAX
\* as migrate() passes it.
UpTos == (1..(MaxVersion - 1)) \cup {VersionMAX}

Step(c) ==
    \/ \E up_to \in UpTos : MigrateUpTo(c, up_to)
    \/ ReadDirtyVersion(c)
    \/ ListApplied(c)
    \/ DryRunStep(c)
    \/ LoopEnd(c)
    \/ \E outcome \in {"ok", "rollback", "dirty"} : ApplySqlStep(c, outcome)
    \/ \E outcome \in {"ok", "migrate_err", "mark_err"} : ApplyRustStep(c, outcome)
    \/ \E ok \in BOOLEAN : LockSqlite(c, ok)
    \/ \E ok \in BOOLEAN : LockPostgres(c, ok)
    \/ \E ok \in BOOLEAN : UnlockSqlite(c, ok)
    \/ \E ok \in BOOLEAN : UnlockPostgres(c, ok)

Next ==
    \/ \E c \in Sequential : Step(c)
    \/ \E sql \in SqlRegistries : \E rust \in RustRegistries : Restart(sql, rust)

\* The calls of one task, one after the other.
Spec == Init /\ [][Next]_vars

\* The calls of one task, migration_status among them, on a database whose
\* history rows may have been overwritten between the runs.
NextStatus ==
    \/ Next
    \/ \E c \in Sequential : MigrationStatus(c)
    \/ \E version \in Versions : Tamper(version)

SpecStatus == Init /\ [][NextStatus]_vars

\* A backend name that is neither "SQLite" nor "PostgreSQL".
OtherBackend == "MySQL"

\* The Migrator as in Init, on a pool whose connections report SQLite or the
\* other backend name.
InitAnyBackend ==
    /\ sql_migrator \in SqlRegistries
    /\ CheckDuplicates(sql_migrator)
    /\ \A m \in sql_migrator : m.checksum = "c1"
    /\ rust_migrations \in RustRegistries
    /\ CheckDuplicates(rust_migrations)
    /\ legacy_sqlite_database \in BOOLEAN
    /\ legacy_sqlite_database =>
            \E m \in rust_migrations : m.name = InitializeFromSqliteName
    /\ backend_name \in {"SQLite", OtherBackend}
    /\ db = FreshDatabase
    /\ legacy_db = FreshDatabase
    /\ advisory_lock = {}
    /\ call = [c \in Callers |-> IdleCall]
    /\ calls = 0
    /\ restarts = 0
    /\ journal = [once |-> {}, twice |-> {}]
    /\ construction = Constructed
    /\ relay = NoRelay

\* The calls of one task on such a pool.
SpecAnyBackend == InitAnyBackend /\ [][Next]_vars

\* Two tasks call the Migrator of one Postgres database at the same time, each
\* on its own connection of the pool.
InitServer == Init /\ backend_name = "PostgreSQL"

StepServer(c) ==
    \/ \E up_to \in UpTos : MigrateUpTo(c, up_to)
    \/ ReadDirtyVersion(c)
    \/ ListApplied(c)
    \/ DryRunStep(c)
    \/ LoopEnd(c)
    \/ \E outcome \in {"ok", "rollback", "dirty"} : ApplySqlStep(c, outcome)
    \/ \E outcome \in {"ok", "migrate_err", "mark_err"} : ApplyRustStep(c, outcome)
    \/ \E ok \in BOOLEAN : LockPostgres(c, ok)
    \/ \E ok \in BOOLEAN : UnlockPostgres(c, ok)

NextServer == \E c \in Callers : StepServer(c)

SpecServer == InitServer /\ [][NextServer]_vars

\* --------------------------------------------- the construction of a Migrator

\* Vec<T> of at most MaxSteps elements of S
Vecs(S) == UNION { [1..n -> S] : n \in 0..MaxSteps }

\* The elements of a Vec
Elements(vec) == { vec[i] : i \in DOMAIN vec }

\* The versions of a Vec in its order: iter().map(|m| m.version())
VersionsOf(vec) == [i \in DOMAIN vec |-> vec[i].version]

\* The SQL migrations a sqlx Migrator may hold, and the Rust migrations a
\* collection may hold: any of the names at any of the versions.
SqlSteps ==
    { SqlxMigration(v, k, FALSE) : v \in Versions, k \in Checksums }
        \cup { SqlxMigration(v, "c1", TRUE) : v \in Versions }
RustSteps ==
    { RustMigration(v, n) :
        v \in Versions,
        n \in { RustName(w) : w \in Versions } \cup {InitializeFromSqliteName} }

\* No Migrator yet.
NotConstructed ==
    [migrator |-> "none", new |-> "", set_rust_migrations |-> "",
     sql |-> <<>>, rust |-> <<>>, sets |-> 0]

\* Migrator::new(sql_migrator)
New(sql) ==
    /\ construction.migrator = "none"
    /\ LET checked == CheckDuplicatesIter(VersionsOf(sql), {})
       IN IF checked = "Ok"
          THEN /\ sql_migrator' = Elements(sql)
               /\ rust_migrations' = {}
               /\ legacy_sqlite_database' = FALSE
               /\ construction' = [construction EXCEPT
                        !.migrator = "built", !.new = "Ok", !.sql = sql]
          ELSE /\ construction' = [construction EXCEPT !.new = checked, !.sql = sql]
               /\ UNCHANGED <<sql_migrator, rust_migrations, legacy_sqlite_database>>
    /\ UNCHANGED <<backend_name, db, legacy_db, advisory_lock, call, calls, restarts,
                   journal, relay>>

\* Migrator::set_rust_migrations(rust_migrations)
SetRustMigrations(rust) ==
    /\ construction.migrator = "built"
    /\ construction.sets < MaxSets
    /\ LET checked == CheckDuplicatesIter(VersionsOf(rust), {})
       IN /\ rust_migrations' = IF checked = "Ok" THEN Elements(rust)
                                 ELSE rust_migrations
          /\ construction' = [construction EXCEPT
                    !.set_rust_migrations = checked, !.rust = rust,
                    !.sets = @ + 1]
    /\ UNCHANGED <<sql_migrator, legacy_sqlite_database, backend_name, db, legacy_db,
                   advisory_lock, call, calls, restarts, journal, relay>>

\* Migrator::set_legacy_sqlite_database(legacy_sqlite_database)
SetLegacySqliteDatabase(legacy) ==
    /\ construction.migrator = "built"
    /\ legacy_sqlite_database' = legacy
    /\ UNCHANGED <<sql_migrator, rust_migrations, backend_name, db, legacy_db,
                   advisory_lock, call, calls, restarts, journal, construction, relay>>

\* Before the construction: nothing is registered and no call was made.
InitRegistry ==
    /\ sql_migrator = {}
    /\ rust_migrations = {}
    /\ legacy_sqlite_database = FALSE
    /\ backend_name = "SQLite"
    /\ db = FreshDatabase
    /\ legacy_db = FreshDatabase
    /\ advisory_lock = {}
    /\ call = [c \in Callers |-> IdleCall]
    /\ calls = 0
    /\ restarts = 0
    /\ journal = [once |-> {}, twice |-> {}]
    /\ construction = NotConstructed
    /\ relay = NoRelay

NextRegistry ==
    \/ \E sql \in Vecs(SqlSteps) : New(sql)
    \/ \E rust \in Vecs(RustSteps) : SetRustMigrations(rust)
    \/ \E legacy \in BOOLEAN : SetLegacySqliteDatabase(legacy)

\* The construction of one Migrator from any collections.
SpecRegistry == InitRegistry /\ [][NextRegistry]_vars

\* ------------------------------------- a call run alone, every driver call Ok

\* Mode::DryRun over the rest of the stream
RECURSIVE DryRun(_, _, _, _, _, _)
DryRun(migrations, applied, database, last_applied, next, last_migrated) ==
    IF migrations = <<>> THEN UpToDate(last_migrated)
    ELSE LET migration == Head(migrations)
             needs_migration ==
                 IF IsSql(migration) THEN NeedsSqlMigration(migration, applied)
                 ELSE NeedsRustMigration(migration, database)
         IN CASE needs_migration = "Err" -> Err("ChecksumMismatch", migration.version)
              [] needs_migration = "true" -> Todo(last_applied, next)
              [] OTHER -> DryRun(Tail(migrations), applied, database, last_applied,
                                 next, migration.version)

\* Mode::ApplyMigrations over the rest of the stream, the driver never failing
RECURSIVE ApplyMigrations(_, _, _, _, _, _)
ApplyMigrations(migrations, applied, database, legacy, legacy_database, last_migrated) ==
    IF migrations = <<>>
    THEN [status |-> UpToDate(last_migrated), db |-> database,
          legacy_db |-> legacy_database]
    ELSE LET migration == Head(migrations)
             r == IF IsSql(migration)
                  THEN [legacy_db |-> legacy_database] @@
                       ApplySqlMigration(migration, applied, database, "ok")
                  ELSE ApplyRustMigration(migration, database, legacy,
                                          legacy_database, "ok")
         IN IF r.result = "MigrationSuccess"
            THEN ApplyMigrations(Tail(migrations), applied, r.db, legacy, r.legacy_db,
                                 migration.version)
            ELSE [status |-> Failed(migration.version, r.result), db |-> r.db,
                  legacy_db |-> r.legacy_db]

\* run_migrations_impl in one piece
RunMigrationsImpl(database, legacy_database, up_to, mode) ==
    LET version == DirtyVersion(database)
        migrations == Migrations(sql_migrator, rust_migrations, up_to)
        applied == ListAppliedMigrations(database)
        next == IF migrations = <<>> THEN VersionMIN
                ELSE migrations[Len(migrations)].version
    IN IF version # None
       THEN [status |-> Failed(version[1], "DirtyVersion"), db |-> database,
             legacy_db |-> legacy_database]
       ELSE IF mode = "DryRun"
       THEN [status |-> DryRun(migrations, applied, database, LastApplied(applied),
                               next, VersionMIN),
             db |-> database, legacy_db |-> legacy_database]
       ELSE ApplyMigrations(migrations, applied, database, legacy_sqlite_database,
                            legacy_database, VersionMIN)

\* migrate_up_to in one piece: what it returns and how it leaves the databases
MigrateUpToAlone(database, legacy_database, up_to) ==
    LET plan == RunMigrationsImpl(database, legacy_database, up_to, "DryRun").status
        run == RunMigrationsImpl(database, legacy_database, up_to, "ApplyMigrations")
    IN CASE plan.ok /\ plan.kind = "UpToDate" ->
                [ret |-> UpToDate(up_to), db |-> database, legacy_db |-> legacy_database]
         [] plan.ok /\ plan.kind = "Todo" ->
                [ret |-> run.status, db |-> run.db, legacy_db |-> run.legacy_db]
         [] plan.ok /\ plan.kind = "Failed" ->
                [ret |-> Err("PreviouslyFailed", plan.version), db |-> database,
                 legacy_db |-> legacy_database]
         [] OTHER -> [ret |-> plan, db |-> database, legacy_db |-> legacy_database]

\* ------------------------------------------------------- the worker relay
\* relay/worker_relay.rs: WorkerRelay::run is spawned for a started worker.
\* It calls the worker's initialize, then receives and handles messages until
\* the receiver yields None or the control signal arrives, then runs
\* shutdown_and_stop_ack.  Every await of run is one action.  The Router and
\* the Context are not part of these sources: what the Router keeps for the
\* address (its list of workers, the mailbox it fills) is written as the
\* relay's calls and the tests use it.

migratorVars == <<sql_migrator, rust_migrations, legacy_sqlite_database, backend_name,
                  db, legacy_db, advisory_lock, call, calls, restarts, journal,
                  construction>>

\* Address::from_string of the worker
Address == "worker"

\* The messages, numbered in the order they are sent.
Messages == 1..MaxMessages

Outcomes == {"Ok", "Err"}

\* error!(...): the relay reports a failure
Report(r, what, msg) == [r EXCEPT !.reported = @ \cup {[what |-> what, msg |-> msg]}]

\* ctx.start_worker(address, worker) returned Ok: the router lists the address
\* and WorkerRelay::init spawned run.
Started == [NoRelay EXCEPT !.pc = "initialize", !.workers = {Address}]

\* router.stop_address(address, true): the router takes no more messages for
\* the address.
StopAddress(r) == [r EXCEPT !.stopping = TRUE]

\* router.stop_ack(address): the router forgets the address.
StopAck(r) == [r EXCEPT !.workers = @ \ {Address}]

\* ctx.list_workers()
ListWorkers == relay.workers

\* A run that enters the loop although initialize failed.
InitializeGoesOn(outcome) ==
    /\ relay.pc = "initialize"
    /\ relay' = IF outcome = "Ok"
                THEN [relay EXCEPT !.pc = "loop", !.initialize = "Ok"]
                ELSE [Report(relay, "initialize", 0) EXCEPT
                        !.pc = "loop", !.initialize = "Err"]
    /\ UNCHANGED migratorVars

\* run: worker.initialize(&mut ctx); on Err the relay goes to
\* shutdown_and_stop_ack(.., false) and returns.
Initialize(outcome) ==
    /\ relay.pc = "initialize"
    /\ relay' = IF outcome = "Ok"
                THEN [relay EXCEPT !.pc = "loop", !.initialize = "Ok"]
                ELSE [Report(relay, "initialize", 0) EXCEPT
                        !.pc = "shutdown", !.initialize = "Err",
                        !.stopped_from_router = FALSE]
    /\ UNCHANGED migratorVars

\* A loop that stops at the first error of handle_message.
RecvMessageStopsOnError(outcome) ==
    /\ relay.pc = "loop"
    /\ relay.receiver # <<>>
    /\ LET msg == Head(relay.receiver)
           r == [relay EXCEPT !.receiver = Tail(@),
                              !.handled = Append(@, [msg |-> msg, result |-> outcome])]
       IN relay' = IF outcome = "Ok" THEN r
                   ELSE [Report(r, "handle_message", msg) EXCEPT
                            !.pc = "shutdown", !.ended = "error",
                            !.stopped_from_router = TRUE]
    /\ UNCHANGED migratorVars

\* recv_message with a message in the receiver: handle_message is called with
\* it; Ok(true) keeps the loop running and so does Err, which run reports.
RecvMessage(outcome) ==
    /\ relay.pc = "loop"
    /\ relay.receiver # <<>>
    /\ LET msg == Head(relay.receiver)
           r == [relay EXCEPT !.receiver = Tail(@),
                              !.handled = Append(@, [msg |-> msg, result |-> outcome])]
       IN relay' = IF outcome = "Ok" THEN r
                   ELSE Report(r, "handle_message", msg)
    /\ UNCHANGED migratorVars

\* recv_message when receiver_next yields None: Ok(false), run breaks.
NoMoreMessages ==
    /\ relay.pc = "loop"
    /\ relay.receiver = <<>>
    /\ relay.closed
    /\ relay' = [relay EXCEPT !.pc = "shutdown", !.ended = "closed",
                              !.stopped_from_router = TRUE]
    /\ UNCHANGED migratorVars

\* recv_message when receiver_next returns an error: run reports it and the
\* loop goes on.
ReceiverError ==
    /\ relay.pc = "loop"
    /\ relay' = Report(relay, "receiver_next", 0)
    /\ UNCHANGED migratorVars

\* The ctrl_rx branch of the select: run breaks.
ShutdownSignal ==
    /\ relay.pc = "loop"
    /\ relay.ctrl_rx
    /\ relay' = [relay EXCEPT !.pc = "shutdown", !.ended = "signal",
                              !.stopped_from_router = TRUE]
    /\ UNCHANGED migratorVars

\* shutdown_and_stop_ack(worker, ctx, stopped_from_router)
ShutdownAndStopAck(hook, router, stop) ==
    /\ relay.pc = "shutdown"
    /\ LET hooked == [(IF hook = "Ok" THEN relay ELSE Report(relay, "shutdown", 0))
                        EXCEPT !.shutdown = hook, !.router = router, !.pc = "done"]
           asked == IF hooked.stopped_from_router THEN hooked
                    ELSE IF stop = "Ok"
                         THEN [StopAddress(hooked) EXCEPT !.stop_address = "Ok"]
                         ELSE [Report(hooked, "stop_address", 0) EXCEPT
                                    !.stop_address = "Err"]
       IN relay' = IF router = "Err" THEN Report(hooked, "router", 0)
                   ELSE [StopAck(asked) EXCEPT !.stop_ack = "Ok"]
    /\ UNCHANGED migratorVars

\* ctx.send(address, msg) of another worker: the router puts the message into
\* the receiver of the address.
Send ==
    /\ relay.sent < MaxMessages
    /\ Address \in relay.workers
    /\ ~relay.stopping
    /\ ~relay.closed
    /\ relay' = [relay EXCEPT !.sent = @ + 1, !.receiver = Append(@, relay.sent + 1)]
    /\ UNCHANGED migratorVars

\* The router stops the worker: it sends the control signal to the relay.
StopWorker ==
    /\ Address \in relay.workers
    /\ ~relay.stopping
    /\ relay' = [relay EXCEPT !.stopping = TRUE, !.ctrl_rx = TRUE]
    /\ UNCHANGED migratorVars

\* The last sender of the receiver is dropped.
CloseReceiver ==
    /\ relay.pc # "none"
    /\ ~relay.closed
    /\ relay' = [relay EXCEPT !.closed = TRUE]
    /\ UNCHANGED migratorVars

\* One worker is started; no Migrator takes part.
InitRelay ==
    /\ sql_migrator = {}
    /\ rust_migrations = {}
    /\ legacy_sqlite_database = FALSE
    /\ backend_name = "SQLite"
    /\ db = FreshDatabase
    /\ legacy_db = FreshDatabase
    /\ advisory_lock = {}
    /\ call = [c \in Callers |-> IdleCall]
    /\ calls = 0
    /\ restarts = 0
    /\ journal = [once |-> {}, twice |-> {}]
    /\ construction = NotConstructed
    /\ relay = Started

\* The steps of the task that runs WorkerRelay::run
Run ==
    \/ \E outcome \in Outcomes : Initialize(outcome)
    \/ \E outcome \in Outcomes : RecvMessage(outcome)
    \/ NoMoreMessages
    \/ ReceiverError
    \/ ShutdownSignal
    \/ \E hook \in Outcomes, router \in Outcomes, stop \in Outcomes :
            ShutdownAndStopAck(hook, router, stop)

NextRelay ==
    \/ Run
    \/ Send
    \/ StopWorker
    \/ CloseReceiver

\* The runtime keeps polling the spawned task: a step of run that stays
\* possible is taken.  Nothing obliges the other workers to send or to stop.
SpecRelay == InitRelay /\ [][NextRelay]_vars /\ WF_vars(Run)

\* ------------------------------------------------------------ the claims

Done(c) == call[c].pc = "done"

ReturnedUpToDate(c) ==
    Done(c) /\ call[c].ret.ok /\ call[c].ret.kind = "UpToDate"

\* The lock of the backend is held on the connection of caller c.
LockHeld(c) ==
    IF backend_name = "SQLite" THEN call[c].locking_mode = "EXCLUSIVE"
    ELSE c \in advisory_lock

Registered == sql_migrator \cup rust_migrations

IsImport(m) == ~IsSql(m) /\ m.name = InitializeFromSqliteName

\* a comes before b in the order (version ascending, SQL before Rust)
Precedes(a, b) ==
    \/ a.version < b.version
    \/ a.version = b.version /\ IsSql(a) /\ ~IsSql(b)

\* The migrations that the call of c ran to success, and the ones it started.
Executed(c) ==
    { Id(call[c].log[i].migration) :
        i \in { k \in DOMAIN call[c].log : call[c].log[k].op \in {"apply", "migrate"} } }
Attempted(c) ==
    { Id(call[c].log[i].migration) :
        i \in { k \in DOMAIN call[c].log : call[c].log[k].op # "mark" } }

\* A history table of either database has a record of m.
HasRecord(m, database, legacy_database) ==
    IF IsSql(m) THEN \E r \in database.sqlx_migrations : r.version = m.version
    ELSE m.name \in database.rust_migrations \cup legacy_database.rust_migrations

\* The registered migrations up to the ceiling of the call of c that are not
\* down migrations and had no record when the call began.
PendingAtStart(c) ==
    { m \in Registered :
        /\ ~m.down
        /\ m.version <= call[c].up_to
        /\ ~HasRecord(m, call[c].start[1].db, call[c].start[1].legacy_db) }

\* The databases are as they were when the call of c began.
NothingWritten(c) ==
    /\ db = call[c].start[1].db
    /\ legacy_db = call[c].start[1].legacy_db

\* C1: within one call the steps are executed, and their records written, in
\* ascending version order with the SQL migration before the Rust migration
\* of the same version; the stream the loop walks is sorted in that order.
C1_AscendingOrder ==
    \A c \in Callers :
        /\ \A i, j \in DOMAIN call[c].migrations :
                i < j => Precedes(call[c].migrations[i], call[c].migrations[j])
        /\ \A i, j \in DOMAIN call[c].log :
                i < j =>
                    \/ Precedes(call[c].log[i].migration, call[c].log[j].migration)
                    \/ /\ call[c].log[i].migration = call[c].log[j].migration
                       /\ j = i + 1
                       /\ call[c].log[i].op = "migrate"
                       /\ call[c].log[j].op = "mark"
        /\ call[c].migrations # <<>> /\ call[c].log # <<>> =>
                LET last == call[c].log[Len(call[c].log)].migration
                IN \/ last = Head(call[c].migrations)
                   \/ Precedes(last, Head(call[c].migrations))

\* One call applied SQL@v, ran and marked Rust@v and then applied a later SQL
\* migration.
C1_Witness ==
    \E c \in Callers :
        /\ Len(call[c].log) >= 4
        /\ call[c].log[1].op = "apply"
        /\ call[c].log[2].op = "migrate"
        /\ call[c].log[2].migration.version = call[c].log[1].migration.version
        /\ call[c].log[3].op = "mark"
        /\ call[c].log[4].op = "apply"

\* The call of c went through all of its stream: it returned UpToDate, or its
\* applier did and only the unlock failed.
Completed(c) ==
    \/ ReturnedUpToDate(c)
    \/ Done(c) /\ call[c].locked /\ call[c].result.ok /\ call[c].result.kind = "UpToDate"

SecondCall(c) ==
    /\ call[c].pc # "idle"
    /\ call[c].prev # None
    /\ call[c].prev[1].up_to = call[c].up_to

RecordIds(database, legacy_database) ==
    { [kind |-> "Sql", version |-> r.version, name |-> ""] :
        r \in database.sqlx_migrations }
    \cup { [kind |-> "Rust", version |-> 0, name |-> n] :
            n \in database.rust_migrations \cup legacy_database.rust_migrations }

\* The call of c began on fresh databases with a ceiling at or above every
\* registered version.
FreshCall(c) ==
    /\ call[c].pc # "idle"
    /\ call[c].start[1].db = FreshDatabase
    /\ call[c].start[1].legacy_db = FreshDatabase
    /\ \A m \in Registered : m.version <= call[c].up_to

\* C4, as claimed: after migrate_up_to(up_to) on a fresh database the applied
\* records are exactly the registered steps that are not down steps.
C4_FreshRecordsAreTheSteps ==
    \A c \in Callers :
        FreshCall(c) /\ ReturnedUpToDate(c) =>
            RecordIds(db, legacy_db) = { Id(m) : m \in { r \in Registered : ~r.down } }

\* C4, amended: the applied records are the registered steps that are not
\* down steps, less the import from SQLite when no legacy database is
\* configured; the record of the import is in the legacy database, and every
\* SQL row carries the checksum of its script.
C4_FreshRecordsAreTheStepsRun ==
    \A c \in Callers :
        FreshCall(c) /\ ReturnedUpToDate(c) =>
            /\ RecordIds(db, legacy_db) =
                { Id(m) : m \in { r \in Registered :
                    ~r.down /\ (IsImport(r) => legacy_sqlite_database) } }
            /\ InitializeFromSqliteName \notin db.rust_migrations
            /\ \A r \in db.sqlx_migrations :
                    r.success /\ \E m \in sql_migrator :
                        m.version = r.version /\ m.checksum = r.checksum

\* A fresh database was migrated with a down script, an up script and the
\* import from a legacy database in the registry.
C4_Witness ==
    \E c \in Callers :
        /\ FreshCall(c) /\ ReturnedUpToDate(c)
        /\ \E m \in sql_migrator : m.down
        /\ db.sqlx_migrations # {}
        /\ legacy_db.rust_migrations # {}

\* The history tables have the record that matches m.
HasMatchingRecord(m) ==
    IF IsSql(m)
    THEN \E r \in db.sqlx_migrations :
            r.version = m.version /\ r.checksum = m.checksum /\ r.success
    ELSE m.name \in db.rust_migrations \cup legacy_db.rust_migrations

\* C5, as claimed: when migrate_up_to(v) returns UpToDate(w), w <= v and every
\* registered step of version <= v has a matching applied record.
C5_UpToDateAllRecorded ==
    \A c \in Callers :
        ReturnedUpToDate(c) =>
            /\ call[c].ret.version <= call[c].up_to
            /\ \A m \in Registered : m.version <= call[c].up_to => HasMatchingRecord(m)

\* C5, amended: w <= v and every registered step of version <= v has a
\* matching record unless it is a down step or the import from SQLite with
\* no legacy database configured.
C5_UpToDateStepsRecorded ==
    \A c \in Callers :
        ReturnedUpToDate(c) =>
            /\ call[c].ret.version <= call[c].up_to
            /\ \A m \in Registered :
                (/\ m.version <= call[c].up_to
                 /\ ~m.down
                 /\ IsImport(m) => legacy_sqlite_database)
                    => HasMatchingRecord(m)

\* A call returned UpToDate over a registry with a down script under its
\* ceiling and with applied SQL and Rust migrations.
C5_Witness ==
    \E c \in Callers :
        /\ ReturnedUpToDate(c)
        /\ \E m \in sql_migrator : m.down /\ m.version <= call[c].up_to
        /\ db.sqlx_migrations # {}
        /\ db.rust_migrations # {}

\* The call of c follows, under the same registry, a call of a lower ceiling
\* that returned UpToDate.
AfterLowerCall(c) ==
    /\ ReturnedUpToDate(c)
    /\ call[c].prev # None
    /\ call[c].prev[1].up_to < call[c].up_to

\* C6: for v1 < v2, migrate_up_to(v1) and then migrate_up_to(v2) leave the
\* history tables that migrate_up_to(v2) alone leaves from the same start.
C6_Monotonic ==
    \A c \in Callers :
        AfterLowerCall(c) =>
            LET alone == MigrateUpToAlone(call[c].prev[1].start.db,
                                          call[c].prev[1].start.legacy_db,
                                          call[c].up_to)
            IN /\ alone.ret.ok /\ alone.ret.kind = "UpToDate"
               /\ alone.db = db
               /\ alone.legacy_db = legacy_db

\* Both calls applied migrations.
C6_Witness ==
    \E c \in Callers :
        /\ AfterLowerCall(c)
        /\ call[c].start[1].db # call[c].prev[1].start.db
        /\ db # call[c].start[1].db

\* C7: a step that executes a SQL or a Rust migration, or that writes a row
\* of a history table, is taken by a call that has acquired the lock of the
\* backend and has not released it.
C7_LockHeldWhileApplying ==
    [][\A c \in Callers :
        (\/ Len(call'[c].log) > Len(call[c].log)
         \/ (c \in Sequential /\ (db' # db \/ legacy_db' # legacy_db)))
            => /\ call[c].locked
               /\ call[c].release = "none"
               /\ call[c].mode = "ApplyMigrations"
               /\ LockHeld(c)
               /\ LockHeld(c)']_vars

\* A call is in the applier with a migration executed and the lock held.
C7_Witness ==
    \E c \in Callers :
        /\ call[c].pc = "loop"
        /\ call[c].mode = "ApplyMigrations"
        /\ call[c].log # <<>>
        /\ db # call[c].start[1].db
        /\ LockHeld(c)

C9_UpToDatePlanReturnsAtOnce ==
    \A c \in Callers :
        call[c].plan.ok /\ call[c].plan.kind = "UpToDate" =>
            /\ Done(c)
            /\ call[c].ret = UpToDate(call[c].up_to)
            /\ ~call[c].locked
            /\ call[c].release = "none"
            /\ call[c].mode = "DryRun"
            /\ call[c].log = <<>>
            /\ NothingWritten(c)

\* The planner went over applied migrations and reported UpToDate.
C9_Witness ==
    \E c \in Callers :
        /\ call[c].plan.ok /\ call[c].plan.kind = "UpToDate"
        /\ Done(c)
        /\ db.sqlx_migrations # {}
        /\ Migrations(sql_migrator, rust_migrations, call[c].up_to) # <<>>

\* C10, as claimed: when the planner reported pending migrations and the
\* applier ran, migrate_up_to returns the value that the applier returned.
C10_ReturnsApplierResult ==
    \A c \in Callers :
        Done(c) /\ call[c].locked =>
            /\ call[c].result # NoResult
            /\ call[c].ret = call[c].result

\* C10, amended: migrate_up_to returns the value that the applier returned
\* when the release of the lock succeeds, and the error of the release when
\* it fails.
C10_ReturnsApplierResultOrUnlockError ==
    \A c \in Callers :
        Done(c) /\ call[c].locked =>
            /\ call[c].plan.ok /\ call[c].plan.kind = "Todo"
            /\ call[c].result # NoResult
            /\ call[c].ret = IF call[c].release = "ok"
                             THEN call[c].result
                             ELSE Err("UnlockError", 0)

\* The applier returned Failed and the call returned it.
C10_Witness ==
    \E c \in Callers :
        /\ Done(c) /\ call[c].locked
        /\ call[c].result.ok /\ call[c].result.kind = "Failed"
        /\ call[c].ret = call[c].result

\* The call of c is in its applier phase: it has taken the lock and has not
\* returned.
InApplier(c) == call[c].locked /\ call[c].pc \notin {"idle", "done"}

\* The migrations that two completed calls on a fresh database had to run.
PendingForBoth ==
    { m \in Registered :
        /\ ~m.down
        /\ \E c \in Callers : m.version <= call[c].up_to }

IsMigrate(c) == call[c].pc # "idle" /\ call[c].entry = "migrate_up_to"
IsStatus(c) == call[c].pc # "idle" /\ call[c].entry = "migration_status"

\* The registered SQL migrations of the stream of c whose applied row had
\* another checksum when the call began, and the first of them in the stream.
Mismatched(c) ==
    { m \in sql_migrator :
        /\ ~m.down
        /\ m.version <= call[c].up_to
        /\ \E r \in call[c].start[1].db.sqlx_migrations :
                r.version = m.version /\ r.checksum # m.checksum }
FirstMismatched(c) ==
    CHOOSE m \in Mismatched(c) : \A n \in Mismatched(c) : n = m \/ Precedes(m, n)

\* The planner finds m pending on the database.
PlannerPending(m, database) ==
    IF IsSql(m)
    THEN ~m.down /\ ~\E r \in database.sqlx_migrations : r.version = m.version
    ELSE m.name \notin database.rust_migrations

\* When the call of c began a migration that comes before m in the stream
\* was pending, or one that comes after m.
PendingBefore(c, m) ==
    \E p \in Registered : Precedes(p, m) /\ PlannerPending(p, call[c].start[1].db)
PendingAfter(c, m) ==
    \E p \in Registered :
        /\ p.version <= call[c].up_to
        /\ Precedes(m, p)
        /\ PlannerPending(p, call[c].start[1].db)

\* C12, as claimed: when an applied SQL row has another checksum than the
\* registered migration of its version, migrate() executes no migration and
\* writes no row, whatever else is pending.
C12_MismatchRefusesAll ==
    \A c \in Callers :
        IsMigrate(c) /\ call[c].up_to = VersionMAX /\ Mismatched(c) # {} =>
            call[c].log = <<>> /\ NothingWritten(c)

\* C12, amended: migrate() executes neither the migration of the mismatched
\* row nor any migration after it, and never returns UpToDate.  With no
\* pending migration before the mismatched one it returns the checksum error
\* without the lock and with nothing executed or written; with one, it
\* executes the migrations before the mismatched one and its applier stops
\* there with Failed(version, IncorrectChecksum).
C12_MismatchStopsTheStream ==
    \A c \in Callers :
        IsMigrate(c) /\ Mismatched(c) # {} =>
            LET first == FirstMismatched(c)
            IN /\ \A i \in DOMAIN call[c].log : Precedes(call[c].log[i].migration, first)
               /\ ~Completed(c)
               /\ call[c].result.ok =>
                    call[c].result = Failed(first.version, "IncorrectChecksum")
               /\ (/\ Done(c)
                   /\ ~PendingBefore(c, first)
                   /\ DirtyVersion(call[c].start[1].db) = None)
                    => /\ call[c].ret = Err("ChecksumMismatch", first.version)
                       /\ ~call[c].locked
                       /\ call[c].log = <<>>
                       /\ NothingWritten(c)

\* migrate_up_to returned the checksum error though a later migration was
\* pending.
C12_Witness ==
    \E c \in Callers :
        /\ IsMigrate(c) /\ Done(c) /\ Mismatched(c) # {}
        /\ call[c].ret = Err("ChecksumMismatch", FirstMismatched(c).version)
        /\ PendingAfter(c, FirstMismatched(c))

\* C13, as claimed: after the checksum of an applied SQL row was changed,
\* status() returns the checksum error, whatever else is applied or pending.
C13_TamperedStatusIsChecksumError ==
    \A c \in Callers :
        IsStatus(c) /\ Done(c) /\ Mismatched(c) # {} =>
            ~call[c].ret.ok /\ call[c].ret.kind = "ChecksumMismatch"

\* C13, amended: status() never returns UpToDate; it returns Failed(v,
\* DirtyVersion) when the dirty marker is set, Todo when a pending migration
\* comes before the changed row in the stream, and the checksum error
\* otherwise.
C13_TamperedStatusNeverUpToDate ==
    \A c \in Callers :
        IsStatus(c) /\ Done(c) /\ Mismatched(c) # {} =>
            LET first == FirstMismatched(c)
                version == DirtyVersion(call[c].start[1].db)
            IN /\ call[c].ret.kind # "UpToDate"
               /\ call[c].ret =
                    IF version # None THEN Failed(version[1], "DirtyVersion")
                    ELSE IF PendingBefore(c, first)
                         THEN Todo(LastApplied(ListAppliedMigrations(call[c].start[1].db)),
                                   LET ms == Migrations(sql_migrator, rust_migrations,
                                                        call[c].up_to)
                                   IN ms[Len(ms)].version)
                         ELSE Err("ChecksumMismatch", first.version)

\* status() returned the checksum error on a tampered row though a later
\* migration was pending.
C13_Witness ==
    \E c \in Callers :
        /\ IsStatus(c) /\ Done(c) /\ Mismatched(c) # {}
        /\ call[c].ret = Err("ChecksumMismatch", FirstMismatched(c).version)
        /\ PendingAfter(c, FirstMismatched(c))

\* The versions whose row says that the script did not run to its end.
DirtyRows(database) == { r.version : r \in { q \in database.sqlx_migrations : ~q.success } }

\* C14: with the dirty marker set to v, status() returns Failed(v,
\* DirtyVersion) at once: it does not go on to the applied list, the
\* checksums or the Rust history.
C14_DirtyStatusAtOnce ==
    \A c \in Callers :
        IsStatus(c) /\ DirtyRows(call[c].start[1].db) # {} =>
            /\ call[c].pc \in {"dirty_version", "done"}
            /\ call[c].migrations = <<>>
            /\ call[c].applied_migrations = {}
            /\ Done(c) =>
                \E v \in DirtyRows(call[c].start[1].db) :
                    call[c].ret = Failed(v, "DirtyVersion")

\* status() returned Failed(v, DirtyVersion) on a database with an applied
\* row and a pending Rust migration.
C14_Witness ==
    \E c \in Callers :
        /\ IsStatus(c) /\ Done(c)
        /\ DirtyRows(call[c].start[1].db) # {}
        /\ call[c].ret.kind = "Failed" /\ call[c].ret.reason = "DirtyVersion"
        /\ \E r \in db.sqlx_migrations : r.success
        /\ \E m \in rust_migrations : PlannerPending(m, db)

\* C15, as claimed: with the dirty marker set to v, migrate and migrate_up_to
\* return the status Failed(v, DirtyVersion), not an error, and apply nothing.
C15_DirtyMigrateReturnsFailed ==
    \A c \in Callers :
        IsMigrate(c) /\ Done(c) /\ DirtyRows(call[c].start[1].db) # {} =>
            /\ \E v \in DirtyRows(call[c].start[1].db) :
                    call[c].ret = Failed(v, "DirtyVersion")
            /\ call[c].log = <<>>
            /\ NothingWritten(c)

\* C15, amended: with the dirty marker set to v, the planner reports
\* Failed(v, DirtyVersion) and migrate and migrate_up_to return an error that
\* names v ("Sql migration previously failed"), not a status; they take no
\* lock and apply nothing.
C15_DirtyMigrateReturnsError ==
    \A c \in Callers :
        IsMigrate(c) /\ Done(c) /\ DirtyRows(call[c].start[1].db) # {} =>
            /\ \E v \in DirtyRows(call[c].start[1].db) :
                    /\ call[c].plan = Failed(v, "DirtyVersion")
                    /\ call[c].ret = Err("PreviouslyFailed", v)
            /\ ~call[c].locked
            /\ call[c].log = <<>>
            /\ NothingWritten(c)

\* A migrate() on a database with the dirty marker and pending migrations
\* has returned.
C15_Witness ==
    \E c \in Callers :
        /\ IsMigrate(c) /\ Done(c) /\ DirtyRows(call[c].start[1].db) # {}
        /\ call[c].up_to = VersionMAX
        /\ ~call[c].ret.ok
        /\ \E m \in Registered : PlannerPending(m, db)

\* The applier of the call of c stopped on a step that ended with op.
StoppedOn(c, op) ==
    /\ call[c].pc \in {"unlock", "done"}
    /\ call[c].locked
    /\ call[c].log # <<>>
    /\ call[c].log[Len(call[c].log)].op = op

\* C16, as claimed: when the driver fails to apply a SQL migration that has no
\* row, the applier returns the status Failed for the version of that
\* migration and raises no error.
C16_ApplyFailureIsFailedStatus ==
    \A c \in Callers :
        StoppedOn(c, "apply_failed") =>
            /\ call[c].result.ok
            /\ call[c].result.kind = "Failed"
            /\ call[c].result.version = call[c].log[Len(call[c].log)].migration.version

\* C16, amended: the applier returns an error that wraps the error of the
\* driver, no status; migrate_up_to returns it once the lock is released.
C16_ApplyFailureIsError ==
    \A c \in Callers :
        StoppedOn(c, "apply_failed") =>
            /\ call[c].result =
                Err("ApplyError", call[c].log[Len(call[c].log)].migration.version)
            /\ Done(c) /\ call[c].release = "ok" => call[c].ret = call[c].result

\* The driver left the dirty row of the migration it failed to apply, and
\* the call has returned.
C16_Witness ==
    \E c \in Callers :
        /\ StoppedOn(c, "apply_failed") /\ Done(c)
        /\ call[c].log[Len(call[c].log)].migration.version \in DirtyRows(db)
        /\ ~call[c].ret.ok

\* The places in the log of c where a step ended with op.
Ended(c, op) == { i \in DOMAIN call[c].log : call[c].log[i].op = op }

\* No history table has a row of the Rust migration m.
Unmarked(m) == m.name \notin db.rust_migrations \cup legacy_db.rust_migrations

\* C17, as claimed: when the migrate of a Rust migration without a row
\* returns an error, migrate_up_to returns that error, no row is written for
\* the migration and the call executes no later migration.
C17_MigrateErrorIsReturned ==
    \A c \in Callers : \A i \in Ended(c, "migrate_failed") :
        /\ i = Len(call[c].log)
        /\ call[c].pc \in {"unlock", "done"}
        /\ Unmarked(call[c].log[i].migration)
        /\ Done(c) => call[c].ret = Err("MigrateError", call[c].log[i].migration.version)

\* C17, amended: the applier returns that error, no row is written for the
\* migration and the call executes no later migration; migrate_up_to returns
\* that error when the release of the lock succeeds and the error of the
\* release when it fails.
C17_MigrateErrorStopsTheCall ==
    \A c \in Callers : \A i \in Ended(c, "migrate_failed") :
        /\ i = Len(call[c].log)
        /\ call[c].pc \in {"unlock", "done"}
        /\ Unmarked(call[c].log[i].migration)
        /\ call[c].result = Err("MigrateError", call[c].log[i].migration.version)
        /\ Done(c) =>
            call[c].ret = IF call[c].release = "ok" THEN call[c].result
                          ELSE Err("UnlockError", 0)

\* The migrate of a Rust migration returned an error while a later migration
\* was pending, and migrate_up_to has returned the error.
C17_Witness ==
    \E c \in Callers : \E i \in Ended(c, "migrate_failed") :
        /\ Done(c)
        /\ call[c].ret = Err("MigrateError", call[c].log[i].migration.version)
        /\ PendingAfter(c, call[c].log[i].migration)
        /\ i > 1

\* The Rust migrations of the stream of c that the applier would run: their
\* row was missing, in the table the applier looks in, when the call began.
UnseenAtStart(c) ==
    { m \in rust_migrations :
        /\ m.version <= call[c].up_to
        /\ IF IsImport(m)
           THEN /\ legacy_sqlite_database
                /\ m.name \notin call[c].start[1].legacy_db.rust_migrations
           ELSE m.name \notin call[c].start[1].db.rust_migrations }

\* The applier of c has gone past m in the stream.
WentPast(c, m) ==
    \/ Completed(c)
    \/ \E i \in DOMAIN call[c].log : Precedes(m, call[c].log[i].migration)

C19_DownStepIsNoOp ==
    /\ [](\A c \in Callers :
            /\ \A i \in DOMAIN call[c].log : ~call[c].log[i].migration.down
            /\ Completed(c) =>
                \A m \in PendingAtStart(c) :
                    (IsImport(m) => legacy_sqlite_database) => Id(m) \in Executed(c))
    /\ [][\A c \in Callers :
            (/\ call[c].pc = "loop"
             /\ call[c].migrations # <<>>
             /\ Head(call[c].migrations).down
             /\ call'[c] # call[c])
                => /\ call'[c] = [call[c] EXCEPT
                                    !.migrations = Tail(@),
                                    !.last_migrated_version = Head(call[c].migrations).version]
                   /\ db' = db
                   /\ legacy_db' = legacy_db]_vars

\* The applier went past a down script and applied the SQL migration after
\* it.
C19_Witness ==
    \E c \in Callers :
        /\ ReturnedUpToDate(c) /\ call[c].locked
        /\ \E m \in sql_migrator : m.down /\ m.version = 1
        /\ \E i \in DOMAIN call[c].log :
            call[c].log[i].op = "apply" /\ call[c].log[i].migration.version = 2

\* The import from SQLite is in the stream of the call of c and a legacy
\* database is configured.
ImportsFromLegacy(c) ==
    /\ call[c].pc # "idle"
    /\ legacy_sqlite_database
    /\ \E m \in rust_migrations : IsImport(m) /\ m.version <= call[c].up_to

\* m was pending when the call of c began, the import from SQLite by the
\* table of the legacy database.
PendingByItsTable(c, m) ==
    IF IsSql(m)
    THEN ~m.down /\ ~\E r \in call[c].start[1].db.sqlx_migrations : r.version = m.version
    ELSE IF IsImport(m)
         THEN m.name \notin call[c].start[1].legacy_db.rust_migrations
         ELSE m.name \notin call[c].start[1].db.rust_migrations

\* C20, as claimed: with a legacy database configured, the check and the mark
\* of the import from SQLite use the _rust_migrations table of the legacy
\* database and never the one of the current connection: the import runs iff
\* the legacy table has no row for it, the mark goes to the legacy table, and
\* the planner counts the import as pending by the legacy table only; with
\* the row there and nothing else pending, migrate copies nothing and returns
\* UpToDate.
C20_ImportUsesLegacyTableOnly ==
    \A c \in Callers :
        ImportsFromLegacy(c) =>
            /\ InitializeFromSqliteName \notin db.rust_migrations
            /\ \A i \in DOMAIN call[c].log :
                IsImport(call[c].log[i].migration) =>
                    InitializeFromSqliteName \notin call[c].start[1].legacy_db.rust_migrations
            /\ \A m \in UnseenAtStart(c) :
                IsImport(m) /\ WentPast(c, m) =>
                    \E i \in DOMAIN call[c].log : IsImport(call[c].log[i].migration)
            /\ call[c].plan.kind = "Todo" =>
                \E p \in Registered :
                    p.version <= call[c].up_to /\ PendingByItsTable(c, p)
            /\ (/\ Done(c)
                /\ call[c].ret.kind \notin {"LockError", "UnlockError"}
                /\ \A p \in Registered :
                    p.version <= call[c].up_to => ~PendingByItsTable(c, p)
                /\ Mismatched(c) = {}
                /\ DirtyRows(call[c].start[1].db) = {})
                    => ReturnedUpToDate(c) /\ call[c].log = <<>> /\ NothingWritten(c)

\* C21: with no legacy database configured the import from SQLite is skipped
\* entirely: its migrate is never called, no table gets a row for it, the
\* applier's loop goes past it without a write, and the other pending
\* migrations of the stream are applied.
C21_NoLegacySkipsImport ==
    /\ [](~legacy_sqlite_database =>
            /\ InitializeFromSqliteName \notin
                    db.rust_migrations \cup legacy_db.rust_migrations
            /\ \A c \in Callers :
                /\ \A i \in DOMAIN call[c].log : ~IsImport(call[c].log[i].migration)
                /\ Completed(c) =>
                    \A m \in PendingAtStart(c) : ~IsImport(m) => Id(m) \in Executed(c))
    /\ [][\A c \in Callers :
            (/\ ~legacy_sqlite_database
             /\ call[c].pc = "loop"
             /\ call[c].mode = "ApplyMigrations"
             /\ call[c].migrations # <<>>
             /\ IsImport(Head(call[c].migrations))
             /\ call'[c] # call[c])
                => /\ call'[c] = [call[c] EXCEPT
                                    !.migrations = Tail(@),
                                    !.last_migrated_version = Head(call[c].migrations).version]
                   /\ db' = db
                   /\ legacy_db' = legacy_db]_vars

\* Without a legacy database the applier went past the import at version 1,
\* applied the migration at version 2 and returned UpToDate.
C21_Witness ==
    \E c \in Callers :
        /\ ~legacy_sqlite_database
        /\ ReturnedUpToDate(c) /\ call[c].locked
        /\ \E m \in rust_migrations : IsImport(m) /\ m.version = 1
        /\ \E i \in DOMAIN call[c].log :
            /\ call[c].log[i].op \in {"apply", "migrate"}
            /\ call[c].log[i].migration.version = 2

\* The call of c is a migration_status that follows, on the same registry and
\* the same databases, a migrate() that returned UpToDate.
StatusAfterMigrate(c) ==
    /\ IsStatus(c)
    /\ call[c].prev # None
    /\ call[c].prev[1].up_to = VersionMAX

\* C22, as claimed: after migrate() returned UpToDate(w), with the registry
\* unchanged, migration_status returns UpToDate(w) and adds no row; a down
\* script, or an import from SQLite skipped for lack of a legacy database,
\* counts as up to date for the planner as it does for the applier.
C22_StatusAfterMigrateIsUpToDate ==
    \A c \in Callers :
        StatusAfterMigrate(c) /\ Done(c) =>
            /\ ReturnedUpToDate(c)
            /\ call[c].ret.version = call[c].prev[1].version
            /\ NothingWritten(c)

\* The version of the last migration of the stream up to up_to, Version::MIN
\* when the stream is empty.
LastOfStream(up_to) ==
    LET versions == { m.version : m \in { r \in Registered : r.version <= up_to } }
    IN IF versions = {} THEN VersionMIN
       ELSE CHOOSE v \in versions : \A w \in versions : w <= v

\* C23, as claimed: whenever migrate_up_to(up_to) returns UpToDate(w), w is
\* the version of the last step of the stream up to up_to, or Version::MIN
\* when the stream is empty, whether the call applied steps or found nothing
\* pending.
C23_UpToDateIsLastOfStream ==
    \A c \in Callers :
        IsMigrate(c) /\ ReturnedUpToDate(c) =>
            call[c].ret.version = LastOfStream(call[c].up_to)

\* C23: when migrate_up_to(up_to) returns UpToDate(w) after its applier ran,
\* w is the version of the last step of the stream up to up_to, or
\* Version::MIN when the stream is empty; when the planner found nothing
\* pending, w is up_to itself.
C23_UpToDateIsLastOfStreamOrCeiling ==
    \A c \in Callers :
        IsMigrate(c) /\ ReturnedUpToDate(c) =>
            call[c].ret.version =
                IF call[c].locked THEN LastOfStream(call[c].up_to) ELSE call[c].up_to

\* A call whose applier ran returned the version of the last step, and the
\* call after it, finding nothing pending, returned its ceiling, which is
\* another version.
C23_Witness ==
    \E c \in Callers :
        /\ IsMigrate(c) /\ ReturnedUpToDate(c) /\ ~call[c].locked
        /\ call[c].prev # None
        /\ call[c].prev[1].up_to = call[c].up_to
        /\ call[c].prev[1].version = LastOfStream(call[c].up_to)
        /\ call[c].prev[1].version > VersionMIN
        /\ call[c].ret.version = call[c].up_to
        /\ call[c].ret.version # call[c].prev[1].version

\* The migrations of the stream of c that the planner finds pending on the
\* database as it was when the call began.
PlannerPendingAtStart(c) ==
    { m \in Registered :
        m.version <= call[c].up_to /\ PlannerPending(m, call[c].start[1].db) }

\* C24, as claimed: when the planner finds a pending step it returns
\* Todo(last_applied, p), where last_applied is the highest applied SQL
\* version and p is the version of the first pending step in the order of
\* the stream, not the version of a later step.
C24_TodoNamesFirstPending ==
    \A c \in Callers :
        (call[c].pc # "idle" /\ call[c].plan.ok /\ call[c].plan.kind = "Todo") =>
            /\ PlannerPendingAtStart(c) # {}
            /\ call[c].plan.last =
                    LastApplied(ListAppliedMigrations(call[c].start[1].db))
            /\ \E p \in PlannerPendingAtStart(c) :
                /\ \A q \in PlannerPendingAtStart(c) : q = p \/ Precedes(p, q)
                /\ call[c].plan.version = p.version

\* Two elements of the Vec have one version.
SharesVersion(vec) ==
    \E i, j \in DOMAIN vec : i # j /\ vec[i].version = vec[j].version

\* C25: Migrator::new fails with the duplicate-version error iff two SQL
\* migrations of its argument share a version, set_rust_migrations fails with
\* it iff two Rust migrations of its argument share a version, whatever the
\* versions of the other family; on Ok the collection is installed.
C25_DuplicateVersionsRejected ==
    /\ construction.new # "" =>
        /\ construction.new = "DuplicateVersion" <=> SharesVersion(construction.sql)
        /\ construction.new = "Ok" <=> construction.migrator = "built"
        /\ construction.new = "Ok" => sql_migrator = Elements(construction.sql)
    /\ construction.set_rust_migrations # "" =>
        /\ construction.set_rust_migrations = "DuplicateVersion"
                <=> SharesVersion(construction.rust)
        /\ construction.set_rust_migrations = "Ok"
                => rust_migrations = Elements(construction.rust)

\* A SQL migration and a Rust migration of version 1 are installed, and a
\* second set_rust_migrations was refused for its first and third element.
C25_Witness ==
    /\ construction.migrator = "built"
    /\ \E m \in sql_migrator : m.version = 1
    /\ \E m \in rust_migrations : m.version = 1
    /\ construction.set_rust_migrations = "DuplicateVersion"
    /\ Len(construction.rust) = 3
    /\ construction.rust[1].version = construction.rust[3].version
    /\ construction.rust[1].version # construction.rust[2].version

\* C26, as claimed: after set_rust_migrations returned Ok no two registered
\* Rust migrations share a name; a collection in which two of them have one
\* name is rejected.
C26_CodeStepNamesUnique ==
    (construction.migrator = "built" /\ construction.set_rust_migrations = "Ok") =>
        /\ \A a, b \in rust_migrations : a.name = b.name => a = b
        /\ \A i, j \in DOMAIN construction.rust :
                construction.rust[i].name = construction.rust[j].name => i = j

\* C27: migrate_up_to(up_to) executes no step of a version above up_to, every
\* row it writes is the row of a step of a version up to up_to, and whether
\* its planner reports UpToDate or Todo is decided by the steps up to up_to
\* alone: Todo iff one of them is pending.
C27_NothingAboveTheCeiling ==
    \A c \in Callers :
        IsMigrate(c) =>
            /\ \A i \in DOMAIN call[c].log :
                    call[c].log[i].migration.version <= call[c].up_to
            /\ \A r \in db.sqlx_migrations \ call[c].start[1].db.sqlx_migrations :
                    /\ r.version <= call[c].up_to
                    /\ \E m \in sql_migrator : m.version = r.version
            /\ \A n \in (db.rust_migrations \ call[c].start[1].db.rust_migrations)
                        \cup (legacy_db.rust_migrations
                                \ call[c].start[1].legacy_db.rust_migrations) :
                    \E m \in rust_migrations : m.name = n /\ m.version <= call[c].up_to
            /\ (call[c].plan.ok /\ call[c].plan.kind \in {"UpToDate", "Todo"}) =>
                    /\ call[c].plan.kind = "Todo" <=> PlannerPendingAtStart(c) # {}
                    /\ call[c].plan.version <= call[c].up_to

\* A call with ceiling 1 applied the step of version 1 and returned UpToDate
\* while the registered step of version 2 has no row; the call after it, with
\* the same ceiling, found nothing pending.
C27_Witness ==
    \E c \in Callers :
        /\ IsMigrate(c) /\ ReturnedUpToDate(c) /\ ~call[c].locked
        /\ call[c].up_to = 1
        /\ call[c].prev # None /\ call[c].prev[1].up_to = 1
        /\ call[c].prev[1].start.db # db
        /\ \E m \in Registered :
            m.version = 2 /\ ~m.down /\ ~HasRecord(m, db, legacy_db)

\* C28: migration_status changes no migration state, whatever it returns: it
\* runs the planner only, executes no SQL and no Rust migration, leaves the
\* rows of _sqlx_migrations and _rust_migrations of both databases as they
\* are, and neither takes nor releases the lock of the backend.
C28_StatusWritesNothing ==
    /\ [](\A c \in Callers :
            IsStatus(c) =>
                /\ call[c].mode = "DryRun"
                /\ call[c].pc \notin {"lock", "unlock"}
                /\ ~call[c].locked
                /\ call[c].release = "none"
                /\ call[c].log = <<>>
                /\ NothingWritten(c))
    /\ [][\A c \in Callers :
            (call'[c].pc # "idle" /\ call'[c].entry = "migration_status") =>
                /\ db' = db
                /\ legacy_db' = legacy_db
                /\ journal' = journal
                /\ advisory_lock' = advisory_lock
                /\ call'[c].locking_mode = call[c].locking_mode]_vars

\* migration_status returned Todo on a database that a migrate call had left
\* with a pending migration, and the migration is still pending.
C28_Witness ==
    \E c \in Callers :
        /\ IsStatus(c) /\ Done(c)
        /\ call[c].ret.ok /\ call[c].ret.kind = "Todo"
        /\ db # FreshDatabase
        /\ \E m \in sql_migrator : PlannerPending(m, db)

Unmatched(S) ==
    { r \in S : ~\E m \in sql_migrator :
                    m.version = r.version /\ m.checksum = r.checksum }

\* C30, as claimed: every applied SQL row has a registered SQL migration of
\* the same version and the same checksum, and over a history in which a row
\* has none the engine neither reports UpToDate nor applies a step.
C30_RowsMatchTheRegistry ==
    \A c \in Callers :
        IsMigrate(c) =>
            /\ Unmatched(db.sqlx_migrations \ call[c].start[1].db.sqlx_migrations) = {}
            /\ Unmatched(call[c].start[1].db.sqlx_migrations) # {} =>
                    /\ ~ReturnedUpToDate(c)
                    /\ call[c].log = <<>>

\* C30: every row the engine writes has the version and the checksum of the
\* registered SQL migration it applied.  Of the rows it finds, the engine
\* compares only those of the registered up migrations of its stream: when
\* one of these has another checksum the call does not return UpToDate and
\* executes nothing at or after the first such migration.  A row without a
\* registered migration, or of a version above the ceiling, is not looked at.
C30_WrittenRowsMatchStreamRowsChecked ==
    \A c \in Callers :
        IsMigrate(c) =>
            /\ Unmatched(db.sqlx_migrations \ call[c].start[1].db.sqlx_migrations) = {}
            /\ Mismatched(c) # {} =>
                    /\ ~ReturnedUpToDate(c)
                    /\ ~Completed(c)
                    /\ \A i \in DOMAIN call[c].log :
                            Precedes(call[c].log[i].migration, FirstMismatched(c))

\* Over a history with a row that no registered migration matches, a call
\* applied a SQL migration and returned UpToDate.
C30_Witness ==
    \E c \in Callers :
        /\ IsMigrate(c) /\ ReturnedUpToDate(c) /\ call[c].locked
        /\ Unmatched(call[c].start[1].db.sqlx_migrations) # {}
        /\ \E i \in DOMAIN call[c].log : call[c].log[i].op = "apply"

\* The rows of _rust_migrations whose name no registered Rust migration has,
\* and the database without them.
Orphans(database) ==
    { n \in database.rust_migrations : \A m \in rust_migrations : m.name # n }
WithoutOrphans(database) ==
    [database EXCEPT !.rust_migrations = @ \ Orphans(database)]

\* C31: a row of _rust_migrations whose name is not registered is ignored and
\* kept: no step of the engine removes a row of the table, migration_status
\* and the planner of migrate_up_to return what they return on the database
\* without such rows, and a call that returns UpToDate has written what it
\* writes on the database without them.
C31_OrphansIgnoredAndKept ==
    /\ [](\A c \in Callers :
            /\ (Done(c) /\ IsStatus(c)) =>
                call[c].ret =
                    RunMigrationsImpl(WithoutOrphans(call[c].start[1].db),
                                      WithoutOrphans(call[c].start[1].legacy_db),
                                      VersionMAX, "DryRun").status
            /\ (IsMigrate(c) /\ call[c].plan # NoResult) =>
                call[c].plan =
                    RunMigrationsImpl(WithoutOrphans(call[c].start[1].db),
                                      WithoutOrphans(call[c].start[1].legacy_db),
                                      call[c].up_to, "DryRun").status
            /\ (IsMigrate(c) /\ ReturnedUpToDate(c) /\ call[c].locked) =>
                LET alone == MigrateUpToAlone(WithoutOrphans(call[c].start[1].db),
                                              WithoutOrphans(call[c].start[1].legacy_db),
                                              call[c].up_to)
                IN /\ WithoutOrphans(db) = alone.db
                   /\ WithoutOrphans(legacy_db) = alone.legacy_db
                   /\ Orphans(db) = Orphans(call[c].start[1].db)
                   /\ Orphans(legacy_db) = Orphans(call[c].start[1].legacy_db))
    /\ [][/\ db.rust_migrations \subseteq db'.rust_migrations
          /\ legacy_db.rust_migrations \subseteq legacy_db'.rust_migrations]_vars

\* On a database with a row of a Rust migration that is no longer registered
\* a migrate call ran a step and returned UpToDate, and the row is there.
C31_Witness ==
    \E c \in Callers :
        /\ IsMigrate(c) /\ ReturnedUpToDate(c) /\ call[c].locked
        /\ Orphans(call[c].start[1].db) # {}
        /\ Orphans(db) # {}
        /\ call[c].log # <<>>

\* C32: an applied record is written once and never changed: no version has
\* two rows in _sqlx_migrations, no row of either table is written a second
\* time (so run_on of a row of _rust_migrations stays that of its first
\* write), and no step of a migrate, migrate_up_to or migration_status call
\* changes or removes a row that exists.
C32_RecordsWrittenOnce ==
    /\ [](/\ \A r, q \in db.sqlx_migrations : r.version = q.version => r = q
          /\ \A e \in journal.twice : e.op \notin {"apply", "mark"})
    /\ [][(\E c \in Callers : call'[c].pc # "idle") =>
            /\ db.sqlx_migrations \subseteq db'.sqlx_migrations
            /\ db.rust_migrations \subseteq db'.rust_migrations
            /\ legacy_db.sqlx_migrations \subseteq legacy_db'.sqlx_migrations
            /\ legacy_db.rust_migrations \subseteq legacy_db'.rust_migrations]_vars

\* A migrate call that began on a database with rows of both tables went
\* past the migrations of those rows, ran another one and returned UpToDate.
C32_Witness ==
    \E c \in Callers :
        /\ IsMigrate(c) /\ ReturnedUpToDate(c) /\ call[c].locked
        /\ call[c].start[1].db.sqlx_migrations # {}
        /\ call[c].start[1].db.rust_migrations # {}
        /\ \E i \in DOMAIN call[c].log : call[c].log[i].op \in {"apply", "mark"}

\* The connection reports a backend name the engine has no regime for.
UnknownBackend == backend_name \notin {"SQLite", "PostgreSQL"}

\* C33, as claimed: on a connection whose backend name is neither SQLite nor
\* PostgreSQL, migrate_up_to assumes no regime: it takes no lock, applies no
\* step, and a call whose planner found a pending step ends with an error.
C33_UnknownBackendRefused ==
    \A c \in Callers :
        (IsMigrate(c) /\ UnknownBackend) =>
            /\ ~call[c].locked
            /\ call[c].log = <<>>
            /\ NothingWritten(c)
            /\ (Done(c) /\ call[c].plan.ok /\ call[c].plan.kind = "Todo") => ~call[c].ret.ok

\* C33: the regime is chosen by comparing the backend name with "SQLite"
\* alone.  On SQLite the applier runs under PRAGMA locking_mode = EXCLUSIVE
\* and connection.lock() is not called; on every other backend name, known or
\* not, it runs under connection.lock() and no PRAGMA is issued.  No backend
\* is refused: a call that planned Todo and did not reach the applier ended
\* with the error of the lock.
C33_OnlySqliteIsProbed ==
    \A c \in Callers :
        IsMigrate(c) =>
            /\ InApplier(c) =>
                IF backend_name = "SQLite"
                THEN call[c].is_sqlite /\ call[c].locking_mode = "EXCLUSIVE"
                     /\ c \notin advisory_lock
                ELSE ~call[c].is_sqlite /\ call[c].locking_mode = "NORMAL"
                     /\ c \in advisory_lock
            /\ (Done(c) /\ call[c].plan.ok /\ call[c].plan.kind = "Todo"
                    /\ ~call[c].locked) => call[c].ret.kind = "LockError"

\* On the other backend a call took connection.lock(), applied a migration and
\* returned UpToDate.
C33_Witness ==
    \E c \in Callers :
        /\ IsMigrate(c) /\ UnknownBackend
        /\ ReturnedUpToDate(c) /\ call[c].locked
        /\ call[c].release = "ok"
        /\ \E i \in DOMAIN call[c].log : call[c].log[i].op \in {"apply", "migrate"}

\* The call of c planned Todo and ended without its applier having begun:
\* the lock was not acquired.
LockNotAcquired(c) ==
    /\ IsMigrate(c) /\ Done(c)
    /\ call[c].plan.ok /\ call[c].plan.kind = "Todo"
    /\ ~call[c].locked

\* C34: when the lock of the backend cannot be acquired, migrate_up_to returns
\* that error to the caller, has executed no step, has written no row, and
\* issues no release.
C34_LockFailurePropagates ==
    /\ [](\A c \in Callers :
            LockNotAcquired(c) =>
                /\ ~call[c].ret.ok
                /\ call[c].ret.kind = "LockError"
                /\ call[c].log = <<>>
                /\ NothingWritten(c)
                /\ call[c].release = "none")
    /\ [][\A c \in Callers :
            (call[c].pc = "lock" /\ call'[c].pc # "lock") =>
                \/ call'[c].locked /\ call'[c].pc = "dirty_version"
                \/ /\ call'[c].pc = "done"
                   /\ ~call'[c].ret.ok
                   /\ db' = db /\ legacy_db' = legacy_db /\ journal' = journal
                   /\ advisory_lock' = advisory_lock]_vars

\* On SQLite the PRAGMA failed for a call that had a SQL migration to apply.
C34_Witness ==
    \E c \in Callers :
        /\ LockNotAcquired(c)
        /\ backend_name = "SQLite"
        /\ call[c].ret.kind = "LockError"
        /\ \E m \in sql_migrator : m \in PendingAtStart(c)

\* The worker's initialize returned an error.
InitializeFailed == relay.initialize = "Err"

\* The relay's task has returned.
RelayDone == relay.pc = "done"

HandleFailed == \E i \in DOMAIN relay.handled : relay.handled[i].result = "Err"

\* Message m was given to handle_message.
Handled(m) == \E i \in DOMAIN relay.handled : relay.handled[i].msg = m

\* Message m waits in the receiver.
InReceiver(m) == \E i \in DOMAIN relay.receiver : relay.receiver[i] = m

\* The loop of run was entered and left.
LoopEnded == relay.initialize = "Ok" /\ relay.pc \in {"shutdown", "done"}

NewlyApplied(c) ==
    { Id(call[c].log[i].migration) :
        i \in { k \in DOMAIN call[c].log : call[c].log[k].op \in {"apply", "mark"} } }

\* A record of m as the registry has it: the row of its version with its
\* checksum and success, or the mark of its name.
StaysApplied(m) ==
    IF IsSql(m)
    THEN \E r \in db.sqlx_migrations :
            r.version = m.version /\ r.success /\ r.checksum = m.checksum
    ELSE m.name \in db.rust_migrations \cup legacy_db.rust_migrations

\* m is the first step of pending that the history tells by its Id: two Rust
\* migrations of one name have one record.
FirstOfItsId(m, pending) ==
    \A q \in pending : Id(q) = Id(m) => (q = m \/ Precedes(m, q))

\* The steps of pending that come first in the stream are the ones the call
\* of c has applied, and their records are there.
AppliedPrefixOf(c, pending) ==
    /\ NewlyApplied(c) \subseteq { Id(p) : p \in pending }
    /\ \A p, m \in pending :
            (/\ Precedes(p, m)
             /\ FirstOfItsId(m, pending)
             /\ Id(m) \in NewlyApplied(c)) => Id(p) \in NewlyApplied(c)
    /\ \A m \in pending : Id(m) \in NewlyApplied(c) => StaysApplied(m)

\* C37 (as stated): however a migrate_up_to call ends, the steps it applied
\* are a prefix, in the order of the stream, of the steps that had no record
\* when it began, and their records are still there.
C37_AppliedIsPrefixOfPending ==
    \A c \in Callers :
        (IsMigrate(c) /\ Done(c)) => AppliedPrefixOf(c, PendingAtStart(c))

\* C37 (amended): at every point of a migrate_up_to call, and however it
\* ends, the steps it applied are a prefix, in the order of the stream, of the
\* steps that had no record when it began, the import from SQLite left out
\* when no legacy database is configured; their records are still there.
C37_AppliedIsPrefixOfPendingButSkippedImport ==
    \A c \in Callers :
        IsMigrate(c) =>
            AppliedPrefixOf(c, { p \in PendingAtStart(c) :
                                    IsImport(p) => legacy_sqlite_database })

\* A call applied a first step, failed on the second and returned an error:
\* the record of the first step is there and a pending step is left.
C37_Witness ==
    \E c \in Callers :
        /\ IsMigrate(c) /\ Done(c)
        /\ ~call[c].ret.ok
        /\ NewlyApplied(c) # {}
        /\ \E i \in DOMAIN call[c].log :
                call[c].log[i].op \in {"apply_failed", "migrate_failed"}
        /\ \E p \in PendingAtStart(c) :
                /\ Id(p) \notin NewlyApplied(c)
                /\ ~IsImport(p)

\* The call of c began on a database whose SQL history had the dirty marker.
BeganDirty(c) ==
    /\ call[c].pc # "idle"
    /\ call[c].start # None
    /\ DirtyRows(call[c].start[1].db) # {}

\* C38: the marker is set by a failed apply of a SQL migration, to its
\* version, and stays as it is; a call that begins while it is set to v takes
\* no lock, executes no step and changes no table; status() then returns
\* Failed(v, DirtyVersion) and migrate_up_to ends with the failure of v.
C38_DirtyMarkerBlocksLaterCalls ==
    /\ [][\A v \in Versions :
            (v \in DirtyRows(db') /\ v \notin DirtyRows(db)) =>
                /\ DirtyRows(db') = {v}
                /\ \E c \in Callers :
                    /\ InApplier(c)
                    /\ call'[c].log # <<>>
                    /\ call'[c].log[Len(call'[c].log)].op = "apply_failed"
                    /\ call'[c].log[Len(call'[c].log)].migration.version = v]_vars
    /\ [][DirtyRows(db) \subseteq DirtyRows(db')]_vars
    /\ [][(\E c \in Callers : BeganDirty(c) /\ ~Done(c)) =>
                /\ db' = db
                /\ legacy_db' = legacy_db
                /\ journal' = journal
                /\ advisory_lock' = advisory_lock]_vars
    /\ [](\A c \in Callers :
            BeganDirty(c) =>
                /\ call[c].log = <<>>
                /\ ~call[c].locked
                /\ call[c].pc \notin {"lock", "unlock"}
                /\ call[c].release = "none"
                /\ Done(c) =>
                    \E v \in Versions :
                        /\ DirtyRows(call[c].start[1].db) = {v}
                        /\ IsStatus(c) => call[c].ret = Failed(v, "DirtyVersion")
                        /\ IsMigrate(c) => ~call[c].ret.ok /\ call[c].ret.version = v)

\* The apply of a SQL migration left the marker at v; the next call, a
\* status() with a SQL migration above v still to apply, has returned
\* Failed(v, DirtyVersion).
C38_Witness ==
    \E c \in Callers, v \in Versions :
        /\ BeganDirty(c) /\ Done(c) /\ IsStatus(c)
        /\ DirtyRows(db) = {v}
        /\ call[c].ret = Failed(v, "DirtyVersion")
        /\ \E m \in sql_migrator : m.version > v /\ PlannerPending(m, db)

\* The applier of c returned Failed(version, IncorrectChecksum).
ApplierFoundMismatch(c) ==
    /\ IsMigrate(c)
    /\ call[c].locked
    /\ call[c].result.ok
    /\ call[c].result.kind = "Failed"
    /\ call[c].result.reason = "IncorrectChecksum"

\* C39: the failure that the applier returns for an applied SQL migration
\* whose row has another checksum reports two checksums, the one of the
\* registered migration and the one of the row, and so two different values.
C39_ReportsRegisteredAndRecordedChecksum ==
    \A c \in Callers :
        ApplierFoundMismatch(c) =>
            /\ call[c].failure # None
            /\ \E m \in sql_migrator, r \in call[c].applied_migrations :
                /\ m.version = call[c].result.version
                /\ r.version = m.version
                /\ {call[c].failure[1].actual, call[c].failure[1].expected}
                        = {m.checksum, r.checksum}
            /\ call[c].failure[1].actual # call[c].failure[1].expected

====
